---- MODULE Spec2Model ----
(***************************************************************************)
(* Model of the fichaje-app time-clock engine: the punch gate (fichar),    *)
(* the interval builder, the break reconciler and the duration/variance    *)
(* calculator.                                                             *)
(*                                                                         *)
(* Time: a naive datetime is an integer number of minutes since Monday     *)
(* 00:00 of week 0; a timedelta is an integer number of minutes; a date is *)
(* a day index (0 = Monday of week 0); a time of day is 0..1439.           *)
(* None is Nulo (-1) wherever a datetime/time/row id may be absent.        *)
(***************************************************************************)
EXTENDS Integers, Sequences, FiniteSets, TLC

VARIABLES
    registros,        \* table "registro": rows in insertion order
    justificaciones,  \* table "registro_justificacion": set of rows
    ediciones,        \* table "registro_edicion": audit rows in insertion order
    reloj,            \* index into Instantes of the current UTC instant
    usuarios,         \* table "user" with its locations, schedules and settings
    respuesta,        \* outcome of the last handled request
    peticiones,       \* concurrent fichar requests in flight (SpecConc)
    caso,             \* input drawn for a pure function (SpecIntervalos, SpecInforme)
    resultado         \* what the last operation computed on caso

vars ==
    <<registros, justificaciones, ediciones, reloj, usuarios, respuesta, peticiones, caso, resultado>>

----------------------------------------------------------------------------
(* Bounds of the model *)

MaxReg == 4          \* rows the registro table may hold in the gate specifications
MaxPeticiones == 2   \* fichar requests in flight at once
MaxEventos == 3      \* rows of an input list of the interval builder
MaxIntervalos == 3   \* work sessions of a table handed to the report builder
MaxFechas == 3       \* dates of a trabajos_por_fecha dict

(* Program constants *)

MinutosDia == 1440   \* timedelta(days=1)
TzOffset == 60       \* Europe/Madrid (CET) offset from UTC, in minutes

Nulo == 0 - 1

Usuarios == {1, 2}
Acciones == {"entrada", "salida", "descanso_inicio", "descanso_fin"}

----------------------------------------------------------------------------
(* Generic helpers *)

Max(a, b) == IF a >= b THEN a ELSE b

RECURSIVE SumSeq(_)
SumSeq(s) == IF s = <<>> THEN 0 ELSE Head(s) + SumSeq(Tail(s))

RECURSIVE SelectSeqBy(_, _)
\* the subsequence of s at the positions whose element is in set S
SelectSeqBy(s, S) ==
    IF s = <<>> THEN <<>>
    ELSE IF Head(s) \in S THEN <<Head(s)>> \o SelectSeqBy(Tail(s), S)
    ELSE SelectSeqBy(Tail(s), S)

Rango(s) == {s[i] : i \in 1..Len(s)}

\* datetime.date(), datetime.combine(), date.weekday()
Fecha(t) == t \div MinutosDia
Combine(fecha, hora) == fecha * MinutosDia + hora
Weekday(fecha) == fecha % 7

\* config.to_local / config.local_to_utc_naive
to_local(t) == t + TzOffset
local_to_utc_naive(t) == t - TzOffset

\* sorted(s, key=...) is stable: rank of position i among the keys
RangoAsc(keys, i) ==
    Cardinality({j \in 1..Len(keys) :
                    keys[j] < keys[i] \/ (keys[j] = keys[i] /\ j < i)}) + 1

\* list.sort(key=..., reverse=True) keeps equal keys in their original order
RangoDesc(keys, i) ==
    Cardinality({j \in 1..Len(keys) :
                    keys[j] > keys[i] \/ (keys[j] = keys[i] /\ j < i)}) + 1

SortedAsc(s, keys) ==
    [p \in 1..Len(s) |-> s[CHOOSE i \in 1..Len(s) : RangoAsc(keys, i) = p]]

SortedDesc(s, keys) ==
    [p \in 1..Len(s) |-> s[CHOOSE i \in 1..Len(s) : RangoDesc(keys, i) = p]]

Momentos(regs) == [i \in 1..Len(regs) |-> regs[i].momento]

----------------------------------------------------------------------------
(* Schedule model: models.Schedule / models.ScheduleDay *)

ScheduleDay(dow, st, en, bt, bs, be, bm, opt, paid) ==
    [day_of_week |-> dow, start_time |-> st, end_time |-> en,
     break_type |-> bt, break_start |-> bs, break_end |-> be,
     break_minutes |-> bm, break_optional |-> opt, break_paid |-> paid]

ScheduleGlobal(st, en, bt, bs, be, bm, opt, paid) ==
    [use_per_day |-> FALSE, start_time |-> st, end_time |-> en,
     break_type |-> bt, break_start |-> bs, break_end |-> be,
     break_minutes |-> bm, break_optional |-> opt, break_paid |-> paid,
     days |-> <<>>]

SchedulePorDias(days) ==
    [use_per_day |-> TRUE, start_time |-> Nulo, end_time |-> Nulo,
     break_type |-> "none", break_start |-> Nulo, break_end |-> Nulo,
     break_minutes |-> Nulo, break_optional |-> FALSE, break_paid |-> FALSE,
     days |-> days]

\* next((d for d in schedule.days if d.day_of_week == dow), None), as a
\* sequence holding the first matching day, or empty
DiaDe(schedule, dow) ==
    LET idx == {i \in 1..Len(schedule.days) : schedule.days[i].day_of_week = dow}
    IN IF idx = {} THEN <<>>
       ELSE <<schedule.days[CHOOSE i \in idx : \A j \in idx : i <= j]>>

\* obtener_horario_aplicable: the first assigned schedule, as a sequence of
\* length 0 (None) or 1
obtener_horario_aplicable(horarios) ==
    IF horarios = <<>> THEN <<>> ELSE <<horarios[1]>>

\* LongitudBruta that never adds the 24 hours
LongitudBruta_sin_medianoche(d, dt) ==
    Combine(dt, d.end_time) - Combine(dt, d.start_time)

\* end - start of a day-spec or global schedule d; +24h when end <= start
LongitudBruta(d, dt) ==
    LET inicio == Combine(dt, d.start_time)
        fin == Combine(dt, d.end_time)
    IN IF fin <= inicio THEN fin + MinutosDia - inicio ELSE fin - inicio

\* length of the fixed break interval of d; +24h when b_fin <= b_inicio
DescansoFijo(d, dt) ==
    LET b_inicio == Combine(dt, d.break_start)
        b_fin == Combine(dt, d.break_end)
    IN IF b_fin <= b_inicio THEN b_fin + MinutosDia - b_inicio ELSE b_fin - b_inicio

\* the body shared by the per-day and the global branch of
\* calcular_jornada_teorica
JornadaDe(d, dt) ==
    LET duracion == LongitudBruta(d, dt)
        resta ==
            IF d.break_paid THEN 0
            ELSE IF d.break_type = "fixed"
                 THEN IF d.break_start # Nulo /\ d.break_end # Nulo
                      THEN DescansoFijo(d, dt) ELSE 0
            ELSE IF d.break_type = "flexible"
                 THEN IF d.break_minutes # Nulo /\ d.break_minutes # 0
                      THEN d.break_minutes ELSE 0
            ELSE 0
    IN Max(duracion - resta, 0)

calcular_jornada_teorica(schedule, dt) ==
    IF schedule.use_per_day
    THEN LET dia == DiaDe(schedule, Weekday(dt))
         IN IF dia = <<>> THEN 0 ELSE JornadaDe(dia[1], dt)
    ELSE IF schedule.start_time = Nulo \/ schedule.end_time = Nulo THEN 0
    ELSE JornadaDe(schedule, dt)

\* "calcular_jornada_teorica(schedule, fecha) if schedule else timedelta(0)"
EsperadoDe(horarios, fecha) ==
    LET schedule == obtener_horario_aplicable(horarios)
    IN IF schedule = <<>> THEN 0 ELSE calcular_jornada_teorica(schedule[1], fecha)

----------------------------------------------------------------------------
(* Rows of table "registro" and the derived intervals *)

\* models.Registro; pos stands for (latitude, longitude): a point on a line,
\* in metres
Registro(id, u, a, t, pos) ==
    [id |-> id, usuario_id |-> u, accion |-> a, momento |-> t, pos |-> pos]

\* rows of regs in table order that satisfy usuario_id = u
DeUsuario(regs, u) == SelectSeq(regs, LAMBDA r : r.usuario_id = u)

RECURSIVE Distintos(_)
\* the distinct elements of s in order of first appearance (dict key order)
Distintos(s) ==
    IF s = <<>> THEN <<>>
    ELSE LET r == Distintos(SubSeq(s, 1, Len(s) - 1))
             ult == s[Len(s)]
         IN IF ult \in Rango(r) THEN r ELSE Append(r, ult)

RECURSIVE Concat(_)
Concat(ss) == IF ss = <<>> THEN <<>> ELSE Head(ss) \o Concat(Tail(ss))

\* logic.construir_intervalo: entrada and salida are sequences of length 0
\* (None) or 1
construir_intervalo(entrada, salida) ==
    [usuario |-> IF entrada # <<>> THEN entrada[1].usuario_id
                 ELSE IF salida # <<>> THEN salida[1].usuario_id ELSE Nulo,
     entrada_id |-> IF entrada # <<>> THEN entrada[1].id ELSE Nulo,
     salida_id |-> IF salida # <<>> THEN salida[1].id ELSE Nulo,
     entrada_momento |-> IF entrada # <<>> THEN entrada[1].momento ELSE Nulo,
     salida_momento |-> IF salida # <<>> THEN salida[1].momento ELSE Nulo,
     row_id |-> IF entrada # <<>> THEN entrada[1].id
                ELSE IF salida # <<>> THEN salida[1].id ELSE Nulo]

EsCompleto(it) == it.entrada_momento # Nulo /\ it.salida_momento # Nulo

\* it.entrada_momento or it.salida_momento: the anchor timestamp
key_intervalo(it) ==
    IF it.entrada_momento # Nulo THEN it.entrada_momento
    ELSE IF it.salida_momento # Nulo THEN it.salida_momento
    ELSE Nulo

\* fecha_base / dia of an interval: the date() of its anchor timestamp
fecha_base(it) == IF key_intervalo(it) = Nulo THEN Nulo ELSE Fecha(key_intervalo(it))

RECURSIVE Emparejar_sin_huerfano(_, _)
\* the pairing pass in which a second entrada replaces the pending one and
\* the pending one is forgotten
Emparejar_sin_huerfano(regs, entrada_actual) ==
    IF regs = <<>>
    THEN IF entrada_actual # <<>>
         THEN <<construir_intervalo(entrada_actual, <<>>)>> ELSE <<>>
    ELSE LET r == Head(regs)
         IN IF r.accion = "entrada"
            THEN Emparejar_sin_huerfano(Tail(regs), <<r>>)
            ELSE IF r.accion = "salida"
            THEN IF entrada_actual # <<>>
                 THEN <<construir_intervalo(entrada_actual, <<r>>)>>
                      \o Emparejar_sin_huerfano(Tail(regs), <<>>)
                 ELSE <<construir_intervalo(<<>>, <<r>>)>>
                      \o Emparejar_sin_huerfano(Tail(regs), <<>>)
            ELSE Emparejar_sin_huerfano(Tail(regs), entrada_actual)

RECURSIVE Emparejar(_, _)
\* the pairing pass over one user's rows sorted by momento; entrada_actual is
\* the pending entrada (length 0 or 1)
Emparejar(regs, entrada_actual) ==
    IF regs = <<>>
    THEN IF entrada_actual # <<>>
         THEN <<construir_intervalo(entrada_actual, <<>>)>> ELSE <<>>
    ELSE LET r == Head(regs)
         IN IF r.accion = "entrada"
            THEN IF entrada_actual = <<>>
                 THEN Emparejar(Tail(regs), <<r>>)
                 ELSE <<construir_intervalo(entrada_actual, <<>>)>>
                      \o Emparejar(Tail(regs), <<r>>)
            ELSE IF r.accion = "salida"
            THEN IF entrada_actual # <<>>
                 THEN <<construir_intervalo(entrada_actual, <<r>>)>>
                      \o Emparejar(Tail(regs), <<>>)
                 ELSE <<construir_intervalo(<<>>, <<r>>)>>
                      \o Emparejar(Tail(regs), <<>>)
            ELSE Emparejar(Tail(regs), entrada_actual)

\* the first loop without the sort by momento: the rows of each user are
\* paired in the order of the list
IntervalosSinLimpiar_sin_ordenar(registros_in) ==
    LET validos == SelectSeq(registros_in,
                       LAMBDA r : r.usuario_id # Nulo /\ r.momento # Nulo)
        uids == Distintos([i \in 1..Len(validos) |-> validos[i].usuario_id])
        DeUid(uid) == Emparejar(DeUsuario(validos, uid), <<>>)
    IN Concat([k \in 1..Len(uids) |-> DeUid(uids[k])])

\* first loop of agrupar_registros_en_intervalos: per user, in the order the
\* users first appear, sort by momento (stable) and pair
IntervalosSinLimpiar(registros_in) ==
    LET validos == SelectSeq(registros_in,
                       LAMBDA r : r.usuario_id # Nulo /\ r.momento # Nulo)
        uids == Distintos([i \in 1..Len(validos) |-> validos[i].usuario_id])
        DeUid(uid) ==
            LET regs_usuario == DeUsuario(validos, uid)
            IN Emparejar(SortedAsc(regs_usuario, Momentos(regs_usuario)), <<>>)
    IN Concat([k \in 1..Len(uids) |-> DeUid(uids[k])])

\* Descartar that compares the orphan with both endpoints of the complete
\* intervals
Descartar_cualquier_extremo(it, completos) ==
    \E c \in Rango(completos) :
        (IF it.entrada_momento # Nulo THEN it.entrada_momento ELSE it.salida_momento)
            \in {c.entrada_momento, c.salida_momento}

\* the orphan "it" repeats a timestamp used by a complete interval of its group
Descartar(it, completos) ==
    \/ /\ it.entrada_momento # Nulo /\ it.salida_momento = Nulo
       /\ \E c \in Rango(completos) : c.entrada_momento = it.entrada_momento
    \/ /\ it.salida_momento # Nulo /\ it.entrada_momento = Nulo
       /\ \E c \in Rango(completos) : c.salida_momento = it.salida_momento

\* second loop: group by (user, date of the anchor) and drop duplicate orphans
LimpiarGrupo(ints) ==
    LET completos == SelectSeq(ints, EsCompleto)
    IN IF completos = <<>> THEN ints
       ELSE SelectSeq(ints, LAMBDA it : EsCompleto(it) \/ ~Descartar(it, completos))

ClaveGrupo(it) == <<it.usuario, fecha_base(it)>>

IntervalosLimpios(intervalos) ==
    LET claves == Distintos([i \in 1..Len(intervalos) |-> ClaveGrupo(intervalos[i])])
        Grupo(c) == SelectSeq(intervalos, LAMBDA it : ClaveGrupo(it) = c)
    IN Concat([k \in 1..Len(claves) |-> LimpiarGrupo(Grupo(claves[k]))])

Claves(ints) == [i \in 1..Len(ints) |-> key_intervalo(ints[i])]

\* agrupar_registros_en_intervalos without its final sort
agrupar_registros_en_intervalos_sin_ordenar(registros_in) ==
    IntervalosLimpios(IntervalosSinLimpiar(registros_in))

agrupar_registros_en_intervalos(registros_in) ==
    LET Ordenados(limpios) == SortedDesc(limpios, Claves(limpios))
    IN Ordenados(IntervalosLimpios(IntervalosSinLimpiar(registros_in)))

\* calcular_duracion_trabajada_intervalo that subtracts the times of day and
\* adds nothing
calcular_duracion_trabajada_intervalo_por_hora(it) ==
    IF it.entrada_momento = Nulo \/ it.salida_momento = Nulo THEN Nulo
    ELSE (it.salida_momento % MinutosDia) - (it.entrada_momento % MinutosDia)

\* logic.calcular_duracion_trabajada_intervalo; Nulo stands for None
calcular_duracion_trabajada_intervalo(it) ==
    IF it.entrada_momento = Nulo \/ it.salida_momento = Nulo THEN Nulo
    ELSE LET real == it.salida_momento - it.entrada_momento
         IN IF real < 0 THEN real + MinutosDia ELSE real

----------------------------------------------------------------------------
(* Break reconciler *)

EsDescanso(r) == r.accion \in {"descanso_inicio", "descanso_fin"}

\* RecorrerPorConsulta that finds no break at all
RecorrerPorConsulta_sin_descansos(rs, inicio_actual, total) ==
    [total |-> 0, inicio_actual |-> Nulo]

RECURSIVE RecorrerPorConsulta(_, _, _)
\* the loop of calcular_descanso_intervalo_para_usuario: a second
\* descanso_inicio while one is pending is ignored
RecorrerPorConsulta(rs, inicio_actual, total) ==
    IF rs = <<>> THEN [total |-> total, inicio_actual |-> inicio_actual]
    ELSE LET r == Head(rs)
         IN IF r.accion = "descanso_inicio"
            THEN RecorrerPorConsulta(Tail(rs),
                     IF inicio_actual = Nulo THEN r.momento ELSE inicio_actual, total)
            ELSE IF r.accion = "descanso_fin" /\ inicio_actual # Nulo
            THEN LET fin == IF r.momento < inicio_actual THEN inicio_actual ELSE r.momento
                 IN RecorrerPorConsulta(Tail(rs), Nulo, total + (fin - inicio_actual))
            ELSE RecorrerPorConsulta(Tail(rs), inicio_actual, total)

\* calcular_descanso_intervalo_para_usuario that leaves a pending break in
\* progress, up to ahora, whether or not the interval has a salida
calcular_descanso_intervalo_para_usuario_sin_cierre(tabla, usuario_id, entrada_momento, salida_momento, ahora) ==
    IF entrada_momento = Nulo
    THEN [total |-> 0, en_curso |-> FALSE, inicio_en_curso |-> Nulo]
    ELSE LET limite_superior == IF salida_momento = Nulo THEN ahora ELSE salida_momento
             filas == SelectSeq(tabla, LAMBDA r :
                          /\ r.usuario_id = usuario_id
                          /\ r.momento >= entrada_momento
                          /\ r.momento <= limite_superior
                          /\ EsDescanso(r))
             w == RecorrerPorConsulta(SortedAsc(filas, Momentos(filas)), Nulo, 0)
         IN IF w.inicio_actual = Nulo
            THEN [total |-> w.total, en_curso |-> FALSE, inicio_en_curso |-> Nulo]
            ELSE [total |-> w.total + (IF ahora > w.inicio_actual
                                        THEN ahora - w.inicio_actual ELSE 0),
                  en_curso |-> TRUE, inicio_en_curso |-> w.inicio_actual]

\* logic.calcular_descanso_intervalo_para_usuario over the table tabla;
\* returns (total, descanso_en_curso, inicio_en_curso)
calcular_descanso_intervalo_para_usuario(tabla, usuario_id, entrada_momento, salida_momento, ahora) ==
    IF entrada_momento = Nulo
    THEN [total |-> 0, en_curso |-> FALSE, inicio_en_curso |-> Nulo]
    ELSE LET limite_superior == IF salida_momento = Nulo THEN ahora ELSE salida_momento
             filas == SelectSeq(tabla, LAMBDA r :
                          /\ r.usuario_id = usuario_id
                          /\ r.momento >= entrada_momento
                          /\ r.momento <= limite_superior
                          /\ EsDescanso(r))
             w == RecorrerPorConsulta(SortedAsc(filas, Momentos(filas)), Nulo, 0)
         IN IF w.inicio_actual = Nulo
            THEN [total |-> w.total, en_curso |-> FALSE, inicio_en_curso |-> Nulo]
            ELSE IF salida_momento = Nulo
            THEN [total |-> w.total + (IF ahora > w.inicio_actual
                                        THEN ahora - w.inicio_actual ELSE 0),
                  en_curso |-> TRUE, inicio_en_curso |-> w.inicio_actual]
            ELSE [total |-> w.total + (IF limite_superior > w.inicio_actual
                                        THEN limite_superior - w.inicio_actual ELSE 0),
                  en_curso |-> FALSE, inicio_en_curso |-> Nulo]

RECURSIVE RecorrerEnMemoria(_, _, _, _, _)
\* the loop of calcular_descanso_intervalos over one user's rows sorted by
\* momento: rows before the window are skipped, the first row after it ends
\* the loop, a later descanso_inicio replaces a pending one
RecorrerEnMemoria(rs, inicio_ventana, fin_ventana, ultimo_inicio, total) ==
    IF rs = <<>> THEN [total |-> total, ultimo_inicio |-> ultimo_inicio]
    ELSE LET r == Head(rs)
         IN IF r.momento < inicio_ventana
            THEN RecorrerEnMemoria(Tail(rs), inicio_ventana, fin_ventana,
                                   ultimo_inicio, total)
            ELSE IF r.momento > fin_ventana
            THEN [total |-> total, ultimo_inicio |-> ultimo_inicio]
            ELSE IF r.accion = "descanso_inicio"
            THEN RecorrerEnMemoria(Tail(rs), inicio_ventana, fin_ventana,
                                   r.momento, total)
            ELSE IF r.accion = "descanso_fin" /\ ultimo_inicio # Nulo
            THEN LET fin == IF r.momento < ultimo_inicio
                            THEN r.momento + MinutosDia ELSE r.momento
                 IN RecorrerEnMemoria(Tail(rs), inicio_ventana, fin_ventana,
                                      Nulo, total + (fin - ultimo_inicio))
            ELSE RecorrerEnMemoria(Tail(rs), inicio_ventana, fin_ventana,
                                   ultimo_inicio, total)

\* logic.calcular_descanso_intervalos for one interval:
\* (descanso_total, descanso_en_curso)
DescansoEnMemoria(it, registros_in, ahora) ==
    LET validos == SelectSeq(registros_in,
                       LAMBDA r : r.usuario_id # Nulo /\ r.momento # Nulo)
        regs0 == DeUsuario(validos, it.usuario)
        regs_usuario == SortedAsc(regs0, Momentos(regs0))
        inicio_ventana == IF it.entrada_momento # Nulo THEN it.entrada_momento
                          ELSE it.salida_momento - 12 * 60
        fin0 == IF it.salida_momento # Nulo THEN it.salida_momento ELSE ahora
        fin_ventana == IF fin0 < inicio_ventana THEN fin0 + MinutosDia ELSE fin0
        w == RecorrerEnMemoria(regs_usuario, inicio_ventana, fin_ventana, Nulo, 0)
        cierre == IF fin_ventana < w.ultimo_inicio
                  THEN fin_ventana + MinutosDia ELSE fin_ventana
    IN IF it.usuario = Nulo \/ regs_usuario = <<>>
          \/ (it.entrada_momento = Nulo /\ it.salida_momento = Nulo)
       THEN [descanso_total |-> 0, descanso_en_curso |-> FALSE]
       ELSE IF w.ultimo_inicio = Nulo
       THEN [descanso_total |-> w.total, descanso_en_curso |-> FALSE]
       ELSE [descanso_total |-> w.total + (cierre - w.ultimo_inicio),
             descanso_en_curso |-> it.salida_momento = Nulo]

----------------------------------------------------------------------------
(* Duration and variance calculator *)

\* theoretical break of a day-spec or global schedule d, as
\* calcular_extra_y_defecto_intervalo computes it
DescansoTeorico(d, fecha) ==
    IF d.break_paid THEN 0
    ELSE IF d.break_type = "fixed" /\ d.break_start # Nulo /\ d.break_end # Nulo
    THEN DescansoFijo(d, fecha)
    ELSE IF d.break_type = "flexible" /\ d.break_minutes # Nulo /\ d.break_minutes > 0
    THEN d.break_minutes
    ELSE 0

\* DescansoEfectivo that treats an optional break as a mandatory one
DescansoEfectivo_sin_opcional(d, fecha, descanso_real) ==
    IF d.break_paid THEN 0
    ELSE Max(descanso_real, DescansoTeorico(d, fecha))

\* descanso_efectivo of calcular_extra_y_defecto_intervalo
DescansoEfectivo(d, fecha, descanso_real) ==
    IF d.break_paid THEN 0
    ELSE IF d.break_optional THEN descanso_real
    ELSE Max(descanso_real, DescansoTeorico(d, fecha))

\* calcular_extra_y_defecto_intervalo whose trabajo_real under a schedule is
\* not cut at zero
calcular_extra_y_defecto_intervalo_sin_recorte(it, horarios, tabla, ahora) ==
    LET dur_real == calcular_duracion_trabajada_intervalo(it)
        fecha == Fecha(it.entrada_momento)
        descanso_real == calcular_descanso_intervalo_para_usuario(
                             tabla, it.usuario, it.entrada_momento,
                             it.salida_momento, ahora).total
        schedule == obtener_horario_aplicable(horarios)
        trabajo_neto == Max(dur_real - descanso_real, 0)
        SinJornada == [trabajo_real |-> trabajo_neto, extra |-> trabajo_neto, defecto |-> 0]
        ConJornada(d) ==
            [trabajo_real |-> dur_real - DescansoEfectivo(d, fecha, descanso_real),
             extra |-> 0, defecto |-> 0]
    IN IF it.usuario = Nulo \/ dur_real = Nulo
       THEN [trabajo_real |-> 0, extra |-> 0, defecto |-> 0]
       ELSE IF schedule = <<>> THEN SinJornada
       ELSE IF schedule[1].use_per_day
       THEN LET dia == DiaDe(schedule[1], Weekday(fecha))
            IN IF dia = <<>> THEN SinJornada ELSE ConJornada(dia[1])
       ELSE IF schedule[1].start_time = Nulo \/ schedule[1].end_time = Nulo
       THEN SinJornada
       ELSE ConJornada(schedule[1])

\* logic.calcular_extra_y_defecto_intervalo: the trabajo_real it leaves on
\* the interval and the (extra, defecto) pair it returns; horarios is
\* it.usuario.schedules, tabla the registro table its break query reads
calcular_extra_y_defecto_intervalo(it, horarios, tabla, ahora) ==
    LET dur_real == calcular_duracion_trabajada_intervalo(it)
        fecha == Fecha(it.entrada_momento)
        descanso_real == calcular_descanso_intervalo_para_usuario(
                             tabla, it.usuario, it.entrada_momento,
                             it.salida_momento, ahora).total
        schedule == obtener_horario_aplicable(horarios)
        trabajo_neto == Max(dur_real - descanso_real, 0)
        SinJornada == [trabajo_real |-> trabajo_neto, extra |-> trabajo_neto, defecto |-> 0]
        ConJornada(d) ==
            [trabajo_real |-> Max(dur_real - DescansoEfectivo(d, fecha, descanso_real), 0),
             extra |-> 0, defecto |-> 0]
    IN IF it.usuario = Nulo \/ dur_real = Nulo
       THEN [trabajo_real |-> 0, extra |-> 0, defecto |-> 0]
       ELSE IF schedule = <<>> THEN SinJornada
       ELSE IF schedule[1].use_per_day
       THEN LET dia == DiaDe(schedule[1], Weekday(fecha))
            IN IF dia = <<>> THEN SinJornada ELSE ConJornada(dia[1])
       ELSE IF schedule[1].start_time = Nulo \/ schedule[1].end_time = Nulo
       THEN SinJornada
       ELSE ConJornada(schedule[1])

\* first day of each month of the model's year (day 0 is Monday 1 January of
\* a leap year), for date.month
InicioMes == <<0, 31, 60, 91, 121, 152, 182, 213, 244, 274, 305, 335>>

MesDe(fecha) == Cardinality({i \in 1..Len(InicioMes) : InicioMes[i] <= fecha})

\* ClavePeriodo that keys every modo by the date
ClavePeriodo_por_fecha(fecha, modo) == <<"dia", fecha>>

\* the grouping key of obtener_trabajo_y_esperado_por_periodo:
\* isocalendar() (year, week), (year, month), or the date itself
ClavePeriodo(fecha, modo) ==
    IF modo = "semanal" THEN <<"semana", fecha \div 7>>
    ELSE IF modo = "mensual" THEN <<"mes", MesDe(fecha)>>
    ELSE <<"dia", fecha>>

RECURSIVE SumaSobre(_, _)
\* the sum of f over the finite set S
SumaSobre(f, S) ==
    IF S = {} THEN 0
    ELSE LET x == CHOOSE y \in S : TRUE IN f[x] + SumaSobre(f, S \ {x})

\* logic.obtener_trabajo_y_esperado_por_periodo; trabajos_por_fecha is a
\* function from dates to worked minutes, horarios is usuario.schedules
obtener_trabajo_y_esperado_por_periodo(horarios, trabajos_por_fecha, modo) ==
    LET fechas == DOMAIN trabajos_por_fecha
        claves == {ClavePeriodo(f, modo) : f \in fechas}
        DeClave(c) == {f \in fechas : ClavePeriodo(f, modo) = c}
        esperados == [f \in fechas |-> EsperadoDe(horarios, f)]
        Totales(grupos) ==
            LET Diff(c) == grupos[c].trabajado - grupos[c].esperado
            IN [trabajado |-> SumaSobre([c \in claves |-> grupos[c].trabajado], claves),
                esperado |-> SumaSobre([c \in claves |-> grupos[c].esperado], claves),
                extra |-> SumaSobre([c \in claves |->
                                        IF Diff(c) > 0 THEN Diff(c) ELSE 0], claves),
                defecto |-> SumaSobre([c \in claves |->
                                          IF Diff(c) < 0 THEN 0 - Diff(c) ELSE 0], claves)]
    IN Totales([c \in claves |->
                   [trabajado |-> SumaSobre(trabajos_por_fecha, DeClave(c)),
                    esperado |-> SumaSobre(esperados, DeClave(c))]])

\* admin_registros, before the export: build the intervals, leave trabajo_real
\* and descanso_total on each; horariosDe maps a user to its schedules
PrepararIntervalos(tabla, horariosDe, ahora) ==
    LET Fila(it, ex, de) ==
            [usuario |-> it.usuario,
             entrada_id |-> it.entrada_id, salida_id |-> it.salida_id,
             entrada_momento |-> it.entrada_momento,
             salida_momento |-> it.salida_momento, row_id |-> it.row_id,
             trabajo_real |-> ex.trabajo_real,
             descanso_total |-> de.descanso_total,
             descanso_en_curso |-> de.descanso_en_curso]
        Preparado(it) ==
            Fila(it,
                 calcular_extra_y_defecto_intervalo(it, horariosDe[it.usuario],
                                                    tabla, ahora),
                 DescansoEnMemoria(it, tabla, ahora))
        Todos(ints) == [i \in 1..Len(ints) |-> Preparado(ints[i])]
    IN Todos(agrupar_registros_en_intervalos(tabla))

\* reporting._build_user_sections, first loop: when trabajo_real is not
\* positive, estimate it as raw duration minus descanso_total
TrabajoParaInforme(it) ==
    IF it.trabajo_real <= 0
    THEN LET d == calcular_duracion_trabajada_intervalo(it)
             dur == IF d = Nulo THEN 0 ELSE d
             trabajo_estimado == dur - it.descanso_total
         IN IF trabajo_estimado > 0 THEN trabajo_estimado ELSE it.trabajo_real
    ELSE it.trabajo_real

\* intervalos_por_usuario_fecha[uid][fecha], sorted by anchor
ListaOrdenada(ints, uid, fecha) ==
    LET Ordenada(lista) == SortedAsc(lista, Claves(lista))
    IN Ordenada(SelectSeq(ints, LAMBDA it : it.usuario = uid /\ fecha_base(it) = fecha))

\* esperado_por_usuario_fecha[uid][fecha]: "+= esperado_td" once for every
\* interval of the date
EsperadoPorUsuarioFecha(ints, uid, fecha, horariosDe) ==
    LET Suma(lista) == SumSeq([i \in 1..Len(lista) |-> EsperadoDe(horariosDe[uid], fecha)])
    IN Suma(ListaOrdenada(ints, uid, fecha))

\* AgregadoDiario whose differences are not cut at zero
AgregadoDiario_sin_recorte(ints, uid, fecha, horariosDe) ==
    LET Trabajado(lista) == SumSeq([i \in 1..Len(lista) |-> lista[i].trabajo_real])
        Figuras(trabajado, esperado) ==
            [trabajado |-> trabajado, esperado |-> esperado,
             extra |-> trabajado - esperado, defecto |-> esperado - trabajado]
    IN Figuras(Trabajado(ListaOrdenada(ints, uid, fecha)),
               EsperadoPorUsuarioFecha(ints, uid, fecha, horariosDe))

\* the daily figures _build_user_sections assigns to the first interval of
\* the date
AgregadoDiario(ints, uid, fecha, horariosDe) ==
    LET Trabajado(lista) == SumSeq([i \in 1..Len(lista) |-> lista[i].trabajo_real])
        Figuras(trabajado, esperado) ==
            [trabajado |-> trabajado, esperado |-> esperado,
             extra |-> IF trabajado - esperado > 0 THEN trabajado - esperado ELSE 0,
             defecto |-> IF trabajado - esperado < 0 THEN esperado - trabajado ELSE 0]
    IN Figuras(Trabajado(ListaOrdenada(ints, uid, fecha)),
               EsperadoPorUsuarioFecha(ints, uid, fecha, horariosDe))

\* the assignment in which every interval of the date carries the figure
FiguraDelIntervalo_todos(primero, figura) == figura

\* _build_user_sections, "for idx, it in enumerate(lista_ordenada)": the
\* figure of the day goes to the first interval of the date, None (shown as
\* zero after to_td) to the others
FiguraDelIntervalo(primero, figura) == IF primero THEN figura ELSE 0

\* reporting._build_user_sections: one section per user, in the order the
\* users first appear; intervalos carry trabajo_real and descanso_total
build_user_sections(intervalos, modo_conteo, horariosDe) ==
    LET Estimados(con0) ==
            [i \in 1..Len(con0) |->
                [con0[i] EXCEPT !.trabajo_real = TrabajoParaInforme(con0[i])]]
        Trabajado(l) == SumSeq([i \in 1..Len(l) |-> l[i].trabajo_real])
        Marcado(it, primero, ag) ==
            [usuario |-> it.usuario,
             entrada_id |-> it.entrada_id, salida_id |-> it.salida_id,
             entrada_momento |-> it.entrada_momento,
             salida_momento |-> it.salida_momento,
             trabajo_real |-> it.trabajo_real,
             descanso_total |-> it.descanso_total,
             primero_del_dia |-> primero,
             horas_extra |-> FiguraDelIntervalo(primero, ag.extra),
             horas_defecto |-> FiguraDelIntervalo(primero, ag.defecto)]
        Armar(uid, ints_sorted, dias, per) ==
            [usuario |-> uid,
             intervalos |-> [i \in 1..Len(ints_sorted) |->
                 Marcado(ints_sorted[i],
                     /\ fecha_base(ints_sorted[i]) # Nulo
                     /\ \A j \in 1..(i - 1) :
                           fecha_base(ints_sorted[j]) # fecha_base(ints_sorted[i]),
                     IF fecha_base(ints_sorted[i]) = Nulo
                     THEN [extra |-> 0, defecto |-> 0]
                     ELSE dias[fecha_base(ints_sorted[i])])],
             dias |-> dias,
             trabajado |-> per.trabajado, esperado |-> per.esperado,
             extra |-> per.extra, defecto |-> per.defecto]
        Seccion(con, uid, ints) ==
            Armar(uid,
                  SortedAsc(ints, Claves(ints)),
                  [f \in {fecha_base(ints[i]) : i \in 1..Len(ints)} \ {Nulo} |->
                      AgregadoDiario(con, uid, f, horariosDe)],
                  obtener_trabajo_y_esperado_por_periodo(
                      horariosDe[uid],
                      [f \in {fecha_base(ints[i]) : i \in 1..Len(ints)} \ {Nulo} |->
                          Trabajado(ListaOrdenada(con, uid, f))],
                      modo_conteo))
        Secciones(con, uids) ==
            [k \in 1..Len(uids) |->
                Seccion(con, uids[k], SelectSeq(con, LAMBDA it : it.usuario = uids[k]))]
        PorUsuario(con) ==
            Secciones(con, Distintos([i \in 1..Len(con) |-> con[i].usuario]))
    IN PorUsuario(Estimados(SelectSeq(intervalos, LAMBDA it : it.usuario # Nulo)))

----------------------------------------------------------------------------
(* The punch gate: services_fichaje.validar_secuencia_fichaje and the checks
   of routes/fichajes.fichar *)

\* models.Location; pos stands for (latitude, longitude)
Location(name, pos, radius) == [name |-> name, pos |-> pos, radius_meters |-> radius]

\* EsFlexible that compares the name as it is written
EsFlexible_exacto(loc) == loc.name = "flexible"

\* (loc.name or "").lower() == "flexible"
EsFlexible(loc) == loc.name \in {"Flexible", "flexible", "FLEXIBLE"}

\* logic.usuario_tiene_flexible
usuario_tiene_flexible(ubicaciones) ==
    \E i \in 1..Len(ubicaciones) : EsFlexible(ubicaciones[i])

\* geo_utils.is_within_radius, with the haversine distance of two points of
\* the line
is_within_radius(pos_user, pos_ref, radius_m) ==
    (IF pos_user >= pos_ref THEN pos_user - pos_ref ELSE pos_ref - pos_user) <= radius_m

SinPos == Nulo            \* the form carries no lat/lon
PosInvalida == Nulo - 1   \* lat/lon that float() rejects

\* datetime.now() of the server, which runs in the local timezone
datetime_now(ahora_utc) == to_local(ahora_utc)

\* the rows Registro.query...order_by(momento.desc()).first() may return for
\* user u: the rows of u with the greatest momento
UltimosRegistros(tabla, u) ==
    LET rs == Rango(DeUsuario(tabla, u))
    IN {r \in rs : \A q \in rs : q.momento <= r.momento}

\* validar_secuencia_fichaje without its "no previous row" branch: a first
\* salida falls through to the comparison with the last row and passes
validar_secuencia_fichaje_sin_primera(accion, ultimo) ==
    IF accion \notin {"entrada", "salida"} THEN "Accion no valida."
    ELSE IF ultimo # <<>> /\ ultimo[1].accion = accion
    THEN IF accion = "entrada"
         THEN "Ya tienes una ENTRADA sin una SALIDA posterior."
         ELSE "Ya has fichado SALIDA. Debes fichar ENTRADA antes de otra SALIDA."
    ELSE ""

\* validar_secuencia_fichaje that accepts a salida only right after an entrada
validar_secuencia_fichaje_tras_entrada(accion, ultimo) ==
    IF accion \notin {"entrada", "salida"} THEN "Accion no valida."
    ELSE IF ultimo = <<>>
    THEN IF accion = "salida"
         THEN "Tu primer fichaje debe ser una ENTRADA, no una salida."
         ELSE ""
    ELSE IF ultimo[1].accion = accion
    THEN "Ya tienes una ENTRADA sin una SALIDA posterior."
    ELSE IF accion = "salida" /\ ultimo[1].accion # "entrada"
    THEN "Ya has fichado SALIDA. Debes fichar ENTRADA antes de otra SALIDA."
    ELSE ""

\* services_fichaje.validar_secuencia_fichaje(accion, ultimo_registro):
\* ultimo is the row as a sequence of length 0 (None) or 1; "" means valid
validar_secuencia_fichaje(accion, ultimo) ==
    IF accion \notin {"entrada", "salida"} THEN "Accion no valida."
    ELSE IF ultimo = <<>>
    THEN IF accion = "salida"
         THEN "Tu primer fichaje debe ser una ENTRADA, no una salida."
         ELSE ""
    ELSE IF ultimo[1].accion = accion
    THEN IF accion = "entrada"
         THEN "Ya tienes una ENTRADA sin una SALIDA posterior."
         ELSE "Ya has fichado SALIDA. Debes fichar ENTRADA antes de otra SALIDA."
    ELSE ""

\* the rows of user u with the given accion
DeAccion(tabla, u, accion) ==
    {r \in Rango(DeUsuario(tabla, u)) : r.accion = accion}

\* the greatest momento among a non-empty set of rows
UltimoMomento(rs) == CHOOSE t \in {r.momento : r \in rs} : \A r \in rs : r.momento <= t

\* usuario_tiene_intervalo_abierto that forgets the salida_posterior query
usuario_tiene_intervalo_abierto_sin_salida(tabla, u) ==
    DeAccion(tabla, u, "entrada") # {}

\* logic.usuario_tiene_intervalo_abierto
usuario_tiene_intervalo_abierto(tabla, u) ==
    LET entradas == DeAccion(tabla, u, "entrada")
    IN /\ entradas # {}
       /\ ~\E r \in DeAccion(tabla, u, "salida") : r.momento > UltimoMomento(entradas)

\* FinOSalidaPosterior that forgets the fin_posterior query
FinOSalidaPosterior_solo_salida(tabla, u) ==
    LET t == UltimoMomento(DeAccion(tabla, u, "descanso_inicio"))
    IN \E r \in DeAccion(tabla, u, "salida") : r.momento > t

\* fichar: a descanso_fin or a salida later than the last descanso_inicio
FinOSalidaPosterior(tabla, u) ==
    LET t == UltimoMomento(DeAccion(tabla, u, "descanso_inicio"))
    IN \/ \E r \in DeAccion(tabla, u, "descanso_fin") : r.momento > t
       \/ \E r \in DeAccion(tabla, u, "salida") : r.momento > t

\* fichar, the branch of descanso_inicio / descanso_fin; "" means accepted
ValidarDescanso(tabla, u, accion) ==
    IF ~usuario_tiene_intervalo_abierto(tabla, u)
    THEN "No puedes registrar un descanso si no has fichado la entrada."
    ELSE IF accion = "descanso_inicio"
    THEN IF DeAccion(tabla, u, "descanso_inicio") # {} /\ ~FinOSalidaPosterior(tabla, u)
         THEN "Ya tienes un descanso en curso."
         ELSE ""
    ELSE IF DeAccion(tabla, u, "descanso_inicio") = {}
    THEN "No hay ningun descanso en curso que terminar."
    ELSE IF FinOSalidaPosterior(tabla, u)
    THEN "No hay ningun descanso en curso que terminar."
    ELSE ""

\* descanso_fijo_hoy that only looks at schedules without per-day entries
descanso_fijo_hoy_solo_global(horarios, hoy) ==
    LET schedule == obtener_horario_aplicable(horarios)
    IN /\ schedule # <<>>
       /\ ~schedule[1].use_per_day
       /\ schedule[1].break_type = "fixed" /\ ~schedule[1].break_optional

\* fichar: the applicable schedule has, today, a fixed break that is not
\* optional
descanso_fijo_hoy(horarios, hoy) ==
    LET schedule == obtener_horario_aplicable(horarios)
    IN /\ schedule # <<>>
       /\ IF schedule[1].use_per_day
          THEN LET dia == DiaDe(schedule[1], Weekday(hoy))
               IN dia # <<>> /\ dia[1].break_type = "fixed" /\ ~dia[1].break_optional
          ELSE schedule[1].break_type = "fixed" /\ ~schedule[1].break_optional

\* fichar: one schedule authorises the instant "ahora" (server local time)
VentanaAutoriza(sched, ahora, margin) ==
    LET hoy == Fecha(ahora)
        dia == DiaDe(sched, Weekday(hoy))
        tiene == IF sched.use_per_day THEN dia # <<>> ELSE TRUE
        inicio_t == IF sched.use_per_day THEN dia[1].start_time ELSE sched.start_time
        fin_t == IF sched.use_per_day THEN dia[1].end_time ELSE sched.end_time
        inicio_dt == Combine(hoy, inicio_t)
        fin_dt == IF Combine(hoy, fin_t) <= inicio_dt
                  THEN Combine(hoy, fin_t) + MinutosDia ELSE Combine(hoy, fin_t)
    IN /\ tiene
       /\ inicio_t # Nulo /\ fin_t # Nulo
       /\ inicio_dt - margin <= ahora /\ ahora <= fin_dt + margin

\* fichar, the schedule enforcement block; "" means the punch goes on
ValidarHorario(perfil, ahora) ==
    IF ~(perfil.tiene_settings /\ perfil.enforce_schedule) THEN ""
    ELSE IF perfil.schedules = <<>> THEN "No tienes ningun horario asignado."
    ELSE IF \E i \in 1..Len(perfil.schedules) :
                VentanaAutoriza(perfil.schedules[i], ahora,
                    IF perfil.margin_minutes = Nulo THEN 0 ELSE perfil.margin_minutes)
    THEN ""
    ELSE "No estas dentro de tu horario autorizado para fichar."

\* fichar, the geofence block
AutorizadoPorUbicacion(ubicaciones, pos) ==
    \/ usuario_tiene_flexible(ubicaciones)
    \/ \E i \in 1..Len(ubicaciones) :
          /\ ~EsFlexible(ubicaciones[i])
          /\ is_within_radius(pos, ubicaciones[i].pos, ubicaciones[i].radius_meters)

\* fichar up to the insert: the flash message of the first check that
\* rejects, or "" when every gate passes. tabla is the registro table as the
\* request reads it, ultimo the row read as ultimo_registro (length 0 or 1)
RechazoFichar(tabla, perfil, u, accion, ultimo, ahora_utc, kiosko, pos) ==
    IF accion \notin Acciones THEN "Accion no valida"
    ELSE IF kiosko = "fallo" THEN "Kiosko: usuario o PIN no validos."
    ELSE IF perfil.ubicaciones = <<>> THEN "No tienes una ubicacion asignada."
    ELSE IF /\ accion \in {"descanso_inicio", "descanso_fin"}
            /\ descanso_fijo_hoy(perfil.schedules, Fecha(datetime_now(ahora_utc)))
    THEN "Tu horario tiene un descanso fijo configurado."
    ELSE LET Resto(secuencia, horario) ==
                 IF secuencia # "" THEN secuencia
                 ELSE IF horario # "" THEN horario
                 ELSE IF pos = SinPos THEN "No se recibio la ubicacion del dispositivo."
                 ELSE IF pos = PosInvalida THEN "Coordenadas de ubicacion invalidas."
                 ELSE IF ~AutorizadoPorUbicacion(perfil.ubicaciones, pos)
                 THEN "No estas dentro de ninguna de tus ubicaciones autorizadas."
                 ELSE ""
         IN Resto(IF accion \in {"entrada", "salida"}
                  THEN validar_secuencia_fichaje(accion, ultimo)
                  ELSE ValidarDescanso(tabla, u, accion),
                  ValidarHorario(perfil, datetime_now(ahora_utc)))

\* fichajes._rango_utc_dia: the UTC bounds of a local date
rango_utc_dia(fecha_local) ==
    [inicio |-> local_to_utc_naive(Combine(fecha_local, 0)),
     fin |-> local_to_utc_naive(Combine(fecha_local, MinutosDia - 1))]

\* fichajes._calcular_trabajado_vs_esperado; registros_in is the day's rows,
\* tabla the table the break query of each interval reads
calcular_trabajado_vs_esperado(u, horarios, fecha_local, registros_in, tabla, ahora) ==
    LET Trabajo(it) ==
            IF it.usuario # u \/ fecha_base(it) # fecha_local THEN 0
            ELSE calcular_extra_y_defecto_intervalo(it, horarios, tabla, ahora).trabajo_real
        Total(ints) == SumSeq([i \in 1..Len(ints) |-> Trabajo(ints[i])])
    IN [trabajado |-> Total(agrupar_registros_en_intervalos(registros_in)),
        esperado |-> EsperadoDe(horarios, fecha_local)]

\* fichar after the flush of a salida: trabajado > esperado for the local day
RequiereMotivo(tabla_con_salida, perfil, u, momento) ==
    LET fecha_local == Fecha(to_local(momento))
        rango == rango_utc_dia(fecha_local)
        registros_dia == SelectSeq(tabla_con_salida, LAMBDA r :
                             /\ r.usuario_id = u
                             /\ r.momento >= rango.inicio /\ r.momento <= rango.fin)
        Supera(tve) == tve.trabajado > tve.esperado
    IN Supera(calcular_trabajado_vs_esperado(u, perfil.schedules, fecha_local,
                                             registros_dia, tabla_con_salida, momento))

----------------------------------------------------------------------------
(* The gate as a state machine: requests handled one at a time *)

\* the UTC instants the clock of the model goes through: Monday 08:00,
\* 12:00, 12:20, 16:10, 23:30 (Tuesday 00:30 local), Tuesday 01:00 and 08:00
Instantes == <<480, 720, 740, 970, 1410, 1500, 1920>>

Oficina == Location("Oficina", 0, 50)
Flexible == Location("Flexible", 0, 0)

\* 09:00-17:00 local with a flexible break of 30 minutes
HorarioFlex == ScheduleGlobal(540, 1020, "flexible", Nulo, Nulo, 30, FALSE, FALSE)
\* 09:00-17:00 local with a fixed break 13:00-13:30, neither optional nor paid
HorarioFijo == ScheduleGlobal(540, 1020, "fixed", 780, 810, Nulo, FALSE, FALSE)

Perfil(ubicaciones, schedules, tiene_settings, enforce, margin) ==
    [ubicaciones |-> ubicaciones, schedules |-> schedules,
     tiene_settings |-> tiene_settings, enforce_schedule |-> enforce,
     margin_minutes |-> margin]

PerfilLibre == Perfil(<<Oficina>>, <<>>, FALSE, FALSE, Nulo)
PerfilFlexible == Perfil(<<Flexible, Oficina>>, <<HorarioFlex>>, TRUE, TRUE, 30)
PerfilFijo == Perfil(<<Oficina>>, <<HorarioFijo>>, TRUE, FALSE, 0)
PerfilSinUbicacion == Perfil(<<>>, <<>>, FALSE, FALSE, Nulo)
\* the sentinel location written in capitals, after a location with a radius
FlexibleMayus == Location("FLEXIBLE", 0, 0)
PerfilFlexibleMayus == Perfil(<<Oficina, FlexibleMayus>>, <<HorarioFlex>>, TRUE, TRUE, 30)

Perfiles ==
    {PerfilLibre, PerfilFlexible, PerfilFlexibleMayus, PerfilFijo, PerfilSinUbicacion}

\* what a request may send
AccionesForm == Acciones \cup {"otra"}
Kioskos == {"no", "fallo"}
Posiciones == {SinPos, PosInvalida, 40, 55, 65}
Motivos == {"", "Otro"}

SinRespuesta == [usuario |-> 0, accion |-> "", ok |-> TRUE, msg |-> ""]

InitComun ==
    /\ registros = <<>>
    /\ justificaciones = {}
    /\ ediciones = <<>>
    /\ reloj = 1
    /\ respuesta = SinRespuesta
    /\ peticiones = <<>>
    /\ caso = <<>>
    /\ resultado = <<>>

Init ==
    /\ InitComun
    /\ usuarios \in {[u \in Usuarios |-> IF u = 1 THEN p ELSE PerfilLibre] : p \in Perfiles}

\* ultimo_registro as fichar reads it: None or one of the latest rows
UltimoLeido(tabla, u) ==
    IF UltimosRegistros(tabla, u) = {} THEN {<<>>}
    ELSE {<<r>> : r \in UltimosRegistros(tabla, u)}

\* as ResultadoFichar, but the flushed row survives the missing motive
ResultadoFichar_sin_rollback(leida, ultimo, tabla, justs, perfil, u, accion, kiosko, pos, motivo, ahora_utc) ==
    LET registro == Registro(Len(tabla) + 1, u, accion, ahora_utc, pos)
        con_registro == Append(tabla, registro)
        Decidir(msg, require_motivo) ==
            IF msg # ""
            THEN [msg |-> msg, tabla |-> tabla, justs |-> justs]
            ELSE IF require_motivo /\ motivo = ""
            THEN [msg |-> "Has superado tu tiempo esperado. Indica un motivo.",
                  tabla |-> con_registro, justs |-> justs]
            ELSE [msg |-> "", tabla |-> con_registro,
                  justs |-> IF require_motivo
                            THEN justs \cup {[registro_id |-> registro.id,
                                              motivo |-> motivo]}
                            ELSE justs]
    IN Decidir(RechazoFichar(leida, perfil, u, accion, ultimo, ahora_utc, kiosko, pos),
               accion = "salida" /\ RequiereMotivo(con_registro, perfil, u, ahora_utc))

\* the outcome of fichar for a request that read "leida" and "ultimo" and
\* inserts into "tabla": the flash message ("" on success), the table and the
\* justifications it leaves
ResultadoFichar(leida, ultimo, tabla, justs, perfil, u, accion, kiosko, pos, motivo, ahora_utc) ==
    LET registro == Registro(Len(tabla) + 1, u, accion, ahora_utc, pos)
        con_registro == Append(tabla, registro)
        Decidir(msg, require_motivo) ==
            IF msg # ""
            THEN [msg |-> msg, tabla |-> tabla, justs |-> justs]
            ELSE IF require_motivo /\ motivo = ""
            THEN [msg |-> "Has superado tu tiempo esperado. Indica un motivo.",
                  tabla |-> tabla, justs |-> justs]
            ELSE [msg |-> "", tabla |-> con_registro,
                  justs |-> IF require_motivo
                            THEN justs \cup {[registro_id |-> registro.id,
                                              motivo |-> motivo]}
                            ELSE justs]
    IN Decidir(RechazoFichar(leida, perfil, u, accion, ultimo, ahora_utc, kiosko, pos),
               accion = "salida" /\ RequiereMotivo(con_registro, perfil, u, ahora_utc))

\* POST /fichar, handled from start to end with no other request in between
Fichar(u, accion, kiosko, pos, motivo) ==
    /\ reloj < Len(Instantes)
    /\ \E ultimo \in UltimoLeido(registros, u) :
         \E r \in {ResultadoFichar(registros, ultimo, registros, justificaciones,
                                   usuarios[u], u, accion, kiosko, pos, motivo,
                                   Instantes[reloj])} :
            /\ r.msg = "" => Len(registros) < MaxReg
            /\ registros' = r.tabla
            /\ justificaciones' = r.justs
            /\ reloj' = IF r.msg = "" THEN reloj + 1 ELSE reloj
            /\ respuesta' = [usuario |-> u, accion |-> accion,
                             ok |-> r.msg = "", msg |-> r.msg]
    /\ UNCHANGED <<ediciones, usuarios, peticiones, caso, resultado>>

\* time passes between requests
Tick ==
    /\ registros = <<>>
    /\ reloj < Len(Instantes)
    /\ reloj' = reloj + 1
    /\ UNCHANGED <<registros, justificaciones, ediciones, usuarios, respuesta, peticiones, caso, resultado>>

\* the forms the model submits for user u. A motive only matters with a
\* salida; a rejected kiosk login or an unknown action never reaches the other
\* fields; the positions outside every radius are tried with entrada; user 2
\* only clocks in and out, from inside its location
Formularios(u) ==
    {f \in [accion : AccionesForm, kiosko : Kioskos, pos : Posiciones, motivo : Motivos] :
        /\ f.accion # "salida" => f.motivo = ""
        /\ (f.kiosko = "fallo" \/ f.accion = "otra") => (f.pos = SinPos /\ f.motivo = "")
        /\ f.accion = "otra" => f.kiosko = "no"
        /\ f.pos \in {55, 65, PosInvalida} => f.accion = "entrada"
        /\ u # 1 => (f.accion \in {"entrada", "salida"} /\ f.kiosko = "no" /\ f.pos = 40)}

Next ==
    \/ \E u \in Usuarios : \E f \in Formularios(u) :
        Fichar(u, f.accion, f.kiosko, f.pos, f.motivo)
    \/ Tick

Spec == Init /\ [][Next]_vars

----------------------------------------------------------------------------
(* Vocabulary of the properties of the gate, read off the history alone *)

\* the events of user u ordered by timestamp
EventosDe(tabla, u) ==
    LET rs == DeUsuario(tabla, u) IN SortedAsc(rs, Momentos(rs))

\* the entrada/salida events of user u ordered by timestamp
EventosTrabajo(tabla, u) ==
    SelectSeq(EventosDe(tabla, u), LAMBDA r : r.accion \in {"entrada", "salida"})

\* the action of the most recent entrada/salida event of u, or "ninguno"
UltimoTrabajo(tabla, u) ==
    LET ev == EventosTrabajo(tabla, u)
    IN IF ev = <<>> THEN "ninguno" ELSE ev[Len(ev)].accion

Alterna(ev) ==
    \A i \in 1..Len(ev) : ev[i].accion = IF i % 2 = 1 THEN "entrada" ELSE "salida"

\* the positions of the descanso_inicio events of u with no later
\* descanso_fin and no later salida
DescansosAbiertos(tabla, u) ==
    LET ev == EventosDe(tabla, u)
    IN {i \in 1..Len(ev) :
          /\ ev[i].accion = "descanso_inicio"
          /\ ~\E j \in (i + 1)..Len(ev) : ev[j].accion \in {"descanso_fin", "salida"}}

\* the most recent descanso_inicio of u exists and is not closed
DescansoAbierto(tabla, u) ==
    LET ev == EventosDe(tabla, u)
        inicios == {i \in 1..Len(ev) : ev[i].accion = "descanso_inicio"}
    IN /\ inicios # {}
       /\ (CHOOSE i \in inicios : \A j \in inicios : j <= i) \in DescansosAbiertos(tabla, u)

\* every break event of u comes after an entrada with no salida in between
DescansosDentroDeSesion(tabla, u) ==
    LET ev == EventosDe(tabla, u)
    IN \A i \in 1..Len(ev) :
          ev[i].accion \in {"descanso_inicio", "descanso_fin"} =>
             \E k \in 1..(i - 1) :
                /\ ev[k].accion = "entrada"
                /\ \A j \in (k + 1)..(i - 1) : ev[j].accion # "salida"

\* this step appended one row, of user u and action a
Anade(u, a) ==
    /\ Len(registros') = Len(registros) + 1
    /\ SubSeq(registros', 1, Len(registros)) = registros
    /\ registros'[Len(registros')].usuario_id = u
    /\ registros'[Len(registros')].accion = a

----------------------------------------------------------------------------
(* Properties of the gate *)

\* C1: after any sequence of punches accepted one at a time, each user's
\* entrada/salida events ordered by timestamp alternate entrada, salida, ...
\* (so at most one unmatched entrada, at the tail)
C1_Alternancia == \A u \in Usuarios : Alterna(EventosTrabajo(registros, u))

\* C2: no entrada is appended for a user whose most recent entrada/salida
\* event is an entrada, whatever break events were recorded after it
C2_EntradaRechazada ==
    [][\A u \in Usuarios :
          UltimoTrabajo(registros, u) = "entrada" => ~Anade(u, "entrada")]_vars

\* C3: a salida of a user with no event at all, or whose most recent
\* entrada/salida event is a salida, is rejected: nothing is appended and an
\* error reason is returned
C3_SalidaRechazada ==
    [][\A u \in Usuarios : \A f \in Formularios(u) :
          (/\ f.accion = "salida"
           /\ (DeUsuario(registros, u) = <<>> \/ UltimoTrabajo(registros, u) = "salida")
           /\ Fichar(u, f.accion, f.kiosko, f.pos, f.motivo))
          => (/\ registros' = registros
              /\ justificaciones' = justificaciones
              /\ ~respuesta'.ok /\ respuesta'.msg # "")]_vars

\* a second salida in a row was refused with the reason of the sequence gate
C3_Testigo ==
    /\ UltimoTrabajo(registros, 1) = "salida"
    /\ respuesta = [usuario |-> 1, accion |-> "salida", ok |-> FALSE,
                    msg |-> "Ya has fichado SALIDA. Debes fichar ENTRADA antes de otra SALIDA."]

\* C5: a descanso_inicio is appended only for a user with an open entrada and
\* no open break; so in every reachable history at most one break is open
\* and every break event lies inside an open entrada window
C5_DescansoInicio ==
    [][\A u \in Usuarios :
          /\ Anade(u, "descanso_inicio") =>
                (/\ UltimoTrabajo(registros, u) = "entrada"
                 /\ ~DescansoAbierto(registros, u))
          /\ Cardinality(DescansosAbiertos(registros', u)) <= 1
          /\ DescansosDentroDeSesion(registros', u)]_vars

\* a second break was started after the first one was closed
C5_Testigo ==
    /\ respuesta.usuario = 1 /\ respuesta.accion = "descanso_inicio" /\ respuesta.ok
    /\ Cardinality(DeAccion(registros, 1, "descanso_inicio")) = 2
    /\ DescansoAbierto(registros, 1)

\* C6: a descanso_fin is appended only for a user with an open break; without
\* one the punch is rejected and nothing is appended
C6_DescansoFin ==
    [][\A u \in Usuarios : \A f \in Formularios(u) :
          /\ Anade(u, "descanso_fin") => DescansoAbierto(registros, u)
          /\ (/\ f.accion = "descanso_fin"
              /\ ~DescansoAbierto(registros, u)
              /\ Fichar(u, f.accion, f.kiosko, f.pos, f.motivo))
             => (registros' = registros /\ ~respuesta'.ok)]_vars

\* a descanso_fin was refused inside an open session whose break was closed
C6_Testigo ==
    /\ UltimoTrabajo(registros, 1) = "entrada"
    /\ DeAccion(registros, 1, "descanso_fin") # {}
    /\ ~DescansoAbierto(registros, 1)
    /\ respuesta = [usuario |-> 1, accion |-> "descanso_fin", ok |-> FALSE,
                    msg |-> "No hay ningun descanso en curso que terminar."]

----------------------------------------------------------------------------
(* The gate under concurrent requests: fichar takes no lock and opens no
   serializable transaction, so another request may commit between the
   queries of a request and its insert *)

\* the requests of the concurrent specification: entrada and salida only,
\* from inside the location, a salida always with a motive
FormulariosConc ==
    {f \in [accion : {"entrada", "salida"}, kiosko : {"no"}, pos : {40}, motivo : Motivos] :
        f.motivo = "Otro" <=> f.accion = "salida"}

InitConc ==
    /\ InitComun
    /\ usuarios = [u \in Usuarios |-> PerfilLibre]

\* fichar of a request up to its last query: what it read of the table
ConcLeer(u, f) ==
    /\ Len(peticiones) < MaxPeticiones
    /\ \E ultimo \in UltimoLeido(registros, u) :
          peticiones' = Append(peticiones,
              [usuario |-> u, form |-> f, leida |-> registros, ultimo |-> ultimo])
    /\ UNCHANGED <<registros, justificaciones, ediciones, reloj, usuarios, respuesta, caso, resultado>>

\* the rest of fichar for the request at position i: the checks decide on
\* what it read, the insert and the commit act on the table as it is now
ConcEscribir(i) ==
    /\ i \in 1..Len(peticiones)
    /\ reloj < Len(Instantes)
    /\ \E p \in {peticiones[i]} :
       \E r \in {ResultadoFichar(p.leida, p.ultimo, registros, justificaciones,
                                 usuarios[p.usuario], p.usuario, p.form.accion,
                                 p.form.kiosko, p.form.pos, p.form.motivo,
                                 Instantes[reloj])} :
          /\ r.msg = "" => Len(registros) < MaxReg
          /\ registros' = r.tabla
          /\ justificaciones' = r.justs
          /\ reloj' = IF r.msg = "" THEN reloj + 1 ELSE reloj
          /\ respuesta' = [usuario |-> p.usuario, accion |-> p.form.accion,
                           ok |-> r.msg = "", msg |-> r.msg]
          /\ peticiones' = SubSeq(peticiones, 1, i - 1)
                           \o SubSeq(peticiones, i + 1, Len(peticiones))
    /\ UNCHANGED <<ediciones, usuarios, caso, resultado>>

NextConc ==
    \/ \E u \in Usuarios, f \in FormulariosConc : ConcLeer(u, f)
    \/ \E i \in 1..MaxPeticiones : ConcEscribir(i)

SpecConc == InitConc /\ [][NextConc]_vars

\* C4: two punch requests of the same user never interleave their read,
\* validate and append steps, so no interleaving of entrada/salida requests
\* leaves two consecutive entrada events
C4_SinDobleEntrada ==
    \A u \in Usuarios :
        LET ev == EventosTrabajo(registros, u)
        IN \A i \in 1..(Len(ev) - 1) :
              ~(ev[i].accion = "entrada" /\ ev[i + 1].accion = "entrada")

----------------------------------------------------------------------------
(* The interval builder over the histories of the gate *)

\* the intervals agrupar_registros_en_intervalos returns for user u
IntervalosDe(tabla, u) ==
    SelectSeq(agrupar_registros_en_intervalos(tabla), LAMBDA it : it.usuario = u)

\* C7: over every history the gate accepted, the builder returns no interval
\* with both ends absent, and exactly one interval without salida when the
\* user's history ends on an unmatched entrada, none otherwise
C7_UnSoloAbierto ==
    \A u \in Usuarios :
        /\ \A it \in Rango(IntervalosDe(registros, u)) :
              it.entrada_momento # Nulo \/ it.salida_momento # Nulo
        /\ Len(SelectSeq(IntervalosDe(registros, u),
                         LAMBDA it : it.salida_momento = Nulo))
             = IF UltimoTrabajo(registros, u) = "entrada" THEN 1 ELSE 0

----------------------------------------------------------------------------
(* The interval builder as a function of the list it is handed *)

\* 08:00 and 12:00 UTC of day 0 and 08:00 UTC of day 1
MomentosCaso == {480, 720, 1920}

\* the rows a list may hold: of user 1 at any of the instants, of user 2 at
\* the first one
EventosCaso ==
    [usuario_id : {1}, accion : {"entrada", "salida"}, momento : MomentosCaso]
    \cup [usuario_id : {2}, accion : {"entrada", "salida"}, momento : {480}]

\* the lists of at most MaxEventos entrada/salida rows, in the order of their
\* ids
CasosIntervalos ==
    UNION {
        {[i \in 1..n |-> Registro(i, ev[i].usuario_id, ev[i].accion, ev[i].momento, 40)] :
            ev \in [1..n -> EventosCaso]} :
        n \in 0..MaxEventos}

InitIntervalos ==
    /\ registros = <<>> /\ justificaciones = {} /\ ediciones = <<>> /\ reloj = 1
    /\ usuarios = [u \in Usuarios |-> PerfilLibre]
    /\ respuesta = SinRespuesta /\ peticiones = <<>>
    /\ caso \in CasosIntervalos
    /\ resultado = <<>>

\* a caller hands the list caso to agrupar_registros_en_intervalos
Agrupar ==
    /\ resultado = <<>>
    /\ resultado' = <<agrupar_registros_en_intervalos(caso)>>
    /\ UNCHANGED <<registros, justificaciones, ediciones, reloj, usuarios, respuesta, peticiones, caso>>

NextIntervalos == Agrupar

SpecIntervalos == InitIntervalos /\ [][NextIntervalos]_vars

\* the lists that hold the rows of s in another order
Permutaciones(s) ==
    {[i \in 1..Len(s) |-> s[f[i]]] :
        f \in {g \in [1..Len(s) -> 1..Len(s)] :
                  \A i, j \in 1..Len(s) : g[i] = g[j] => i = j}}

\* C8: the interval list is a function of the set of rows: handed the same
\* rows in any other order, equal timestamps included, the builder returns
\* the identical list
C8_MismoResultado ==
    resultado # <<>> =>
        \A p \in Permutaciones(caso) :
            agrupar_registros_en_intervalos(p) = resultado[1]

----------------------------------------------------------------------------
(* The report pipeline of admin_registros over a table of work sessions *)

\* the work sessions a table of the report may hold, in UTC: a morning and an
\* afternoon session on each of two days
SesionesInforme ==
    <<[entrada |-> Combine(0, 480), salida |-> Combine(0, 720)],
      [entrada |-> Combine(0, 780), salida |-> Combine(0, 1080)],
      [entrada |-> Combine(1, 480), salida |-> Combine(1, 720)],
      [entrada |-> Combine(1, 780), salida |-> Combine(1, 1080)]>>

Horario8h == ScheduleGlobal(540, 1020, "none", Nulo, Nulo, Nulo, FALSE, FALSE)

\* the registro table of user 1 holding the sessions whose index is in I
TablaDe(I) ==
    LET Filas(elegidas) ==
            Concat([k \in 1..Len(elegidas) |->
                <<Registro(2 * k - 1, 1, "entrada", elegidas[k].entrada, 40),
                  Registro(2 * k, 1, "salida", elegidas[k].salida, 40)>>])
    IN Filas(SelectSeqBy(SesionesInforme, {SesionesInforme[i] : i \in I}))

Modos == {"dia", "semanal", "mensual"}

CasosInforme ==
    {[tabla |-> TablaDe(I), horarios |-> h, modo |-> m] :
        I \in {J \in SUBSET (1..Len(SesionesInforme)) : Cardinality(J) <= MaxIntervalos},
        h \in {<<>>, <<Horario8h>>, <<HorarioFlex>>},
        m \in Modos}

\* the instant of the export, after every session
AhoraInforme == Combine(2, 0)

InitInforme ==
    /\ registros = <<>> /\ justificaciones = {} /\ ediciones = <<>> /\ reloj = 1
    /\ usuarios = [u \in Usuarios |-> PerfilLibre]
    /\ respuesta = SinRespuesta /\ peticiones = <<>>
    /\ caso \in CasosInforme
    /\ resultado = <<>>

\* usuario.schedules of the users of the report
HorariosInforme == [u \in Usuarios |-> IF u = 1 THEN caso.horarios ELSE <<>>]

\* admin_registros with accion csv/pdf: the intervals of the table, their
\* worked time and breaks, then the sections of the export
Informe ==
    /\ resultado = <<>>
    /\ resultado' = <<build_user_sections(
                         PrepararIntervalos(caso.tabla, HorariosInforme, AhoraInforme),
                         caso.modo, HorariosInforme)>>
    /\ UNCHANGED <<registros, justificaciones, ediciones, reloj, usuarios, respuesta, peticiones, caso>>

NextInforme == Informe

SpecInforme == InitInforme /\ [][NextInforme]_vars

\* C9: for every user and date of a report, the expected time the day's
\* overtime and deficit are derived from is the theoretical duration of the
\* date counted once, however many intervals the date holds
C9_EsperadoUnaVez ==
    resultado # <<>> =>
        \A k \in 1..Len(resultado[1]) :
            \A f \in DOMAIN resultado[1][k].dias :
                resultado[1][k].dias[f].esperado
                    = EsperadoDe(HorariosInforme[resultado[1][k].usuario], f)

----------------------------------------------------------------------------
(* obtener_trabajo_y_esperado_por_periodo as a function of its arguments *)

\* Monday and Tuesday of week 1, Monday of week 2, then 31 January and
\* 1 February, which share week 5
FechasPeriodo == {0, 1, 7, 30, 31}
TrabajosPeriodo == {240, 600}

CasosPeriodo ==
    {[horarios |-> h, trabajos |-> t, modo |-> m] :
        t \in UNION {[D -> TrabajosPeriodo] :
                        D \in {E \in SUBSET FechasPeriodo : Cardinality(E) <= MaxFechas}},
        h \in {<<>>, <<Horario8h>>},
        m \in Modos}

InitPeriodo ==
    /\ registros = <<>> /\ justificaciones = {} /\ ediciones = <<>> /\ reloj = 1
    /\ usuarios = [u \in Usuarios |-> PerfilLibre]
    /\ respuesta = SinRespuesta /\ peticiones = <<>>
    /\ caso \in CasosPeriodo
    /\ resultado = <<>>

\* a caller asks for the totals of the period
Agregar ==
    /\ resultado = <<>>
    /\ resultado' = <<obtener_trabajo_y_esperado_por_periodo(
                         caso.horarios, caso.trabajos, caso.modo)>>
    /\ UNCHANGED <<registros, justificaciones, ediciones, reloj, usuarios, respuesta, peticiones, caso>>

NextPeriodo == Agregar

SpecPeriodo == InitPeriodo /\ [][NextPeriodo]_vars

\* worked minus expected time of the date f of the case
SaldoDia(f) == caso.trabajos[f] - EsperadoDe(caso.horarios, f)

\* the dates of the case that fall in the period of date f
PeriodoDe(f) ==
    {g \in DOMAIN caso.trabajos :
        IF caso.modo = "semanal" THEN g \div 7 = f \div 7
        ELSE IF caso.modo = "mensual" THEN MesDe(g) = MesDe(f)
        ELSE g = f}

PeriodosCaso == {PeriodoDe(f) : f \in DOMAIN caso.trabajos}

SaldoPeriodo(P) == SumaSobre([f \in P |-> SaldoDia(f)], P)

\* C10 as stated: for every modo, extra is the sum over the dates of the
\* positive part of worked - expected, and defecto the sum of the positive
\* part of expected - worked, with no offsetting between dates
C10_SinCompensar ==
    resultado # <<>> =>
        /\ resultado[1].extra
             = SumaSobre([f \in DOMAIN caso.trabajos |-> Max(SaldoDia(f), 0)],
                         DOMAIN caso.trabajos)
        /\ resultado[1].defecto
             = SumaSobre([f \in DOMAIN caso.trabajos |-> Max(0 - SaldoDia(f), 0)],
                         DOMAIN caso.trabajos)

\* C10: extra is the sum, over the periods of the modo (the date, the ISO
\* week, the month), of the positive part of the period's worked - expected,
\* and defecto the sum of the positive part of expected - worked: the dates of
\* one week or month offset each other, the periods do not
C10_PorPeriodo ==
    resultado # <<>> =>
        /\ resultado[1].extra
             = SumaSobre([P \in PeriodosCaso |-> Max(SaldoPeriodo(P), 0)], PeriodosCaso)
        /\ resultado[1].defecto
             = SumaSobre([P \in PeriodosCaso |-> Max(0 - SaldoPeriodo(P), 0)], PeriodosCaso)

\* totals of a week that holds a day over and a day under the expected time,
\* and of a second week
C10_Testigo ==
    /\ resultado # <<>>
    /\ caso.modo = "semanal"
    /\ Cardinality(PeriodosCaso) = 2
    /\ \E f, g \in DOMAIN caso.trabajos :
          /\ f # g /\ PeriodoDe(f) = PeriodoDe(g)
          /\ SaldoDia(f) > 0 /\ SaldoDia(g) < 0

----------------------------------------------------------------------------
(* The report pipeline over one work session of user 1, with its breaks and
   the schedule the user holds *)

HorarioFijoOpcional == ScheduleGlobal(540, 1020, "fixed", 780, 810, Nulo, TRUE, FALSE)
HorarioFijoPagado == ScheduleGlobal(540, 1020, "fixed", 780, 810, Nulo, FALSE, TRUE)

\* a per-weekday schedule whose only day-spec is Monday
HorarioLunes ==
    SchedulePorDias(<<ScheduleDay(0, 540, 1020, "fixed", 780, 810, Nulo, FALSE, FALSE)>>)

\* a global schedule whose break is longer than its span: 09:00-09:20 with a
\* flexible break of 30 minutes
HorarioCero == ScheduleGlobal(540, 560, "flexible", Nulo, Nulo, 30, FALSE, FALSE)

HorariosJornada ==
    {<<>>, <<HorarioFijo>>, <<HorarioFijoOpcional>>, <<HorarioFijoPagado>>,
     <<HorarioFlex>>, <<Horario8h>>, <<HorarioLunes>>, <<HorarioCero>>}

\* the session starts at 08:00 UTC (09:00 local) on a Monday or a Saturday
DiasJornada == {0, 5}
EntradaJornada == 480
\* clock-out at 08:20, 16:00, 16:10 or 16:30 UTC, or none yet
SalidasJornada == {Nulo, 500, 960, 970, 990}
\* the breaks of the session as <<inicio, fin>> pairs, fin Nulo when the break
\* was never closed
DescansosJornada ==
    {<<>>, <<<<720, 740>>>>, <<<<720, 760>>>>, <<<<720, Nulo>>>>}

\* a session that ends before 12:00 UTC holds no break
CasosJornada ==
    {c \in {[dia |-> d, salida |-> s, descansos |-> b, horarios |-> h, modo |-> m] :
                d \in DiasJornada, s \in SalidasJornada, b \in DescansosJornada,
                h \in HorariosJornada, m \in Modos} :
        (c.salida # Nulo /\ c.salida < 720) => c.descansos = <<>>}

\* the registro table of the case: entrada, the break rows, salida
TablaJornada(c) ==
    LET Descansos ==
            Concat([k \in 1..Len(c.descansos) |->
                <<Registro(2 * k, 1, "descanso_inicio",
                           Combine(c.dia, c.descansos[k][1]), 40)>>
                \o (IF c.descansos[k][2] = Nulo THEN <<>>
                    ELSE <<Registro(2 * k + 1, 1, "descanso_fin",
                                    Combine(c.dia, c.descansos[k][2]), 40)>>)])
    IN <<Registro(1, 1, "entrada", Combine(c.dia, EntradaJornada), 40)>>
       \o Descansos
       \o (IF c.salida = Nulo THEN <<>>
           ELSE <<Registro(2 * Len(c.descansos) + 2, 1, "salida",
                           Combine(c.dia, c.salida), 40)>>)

\* the instant of the export: 17:00 UTC of the day of the session
AhoraJornada(c) == Combine(c.dia, 1020)

InitJornada ==
    /\ registros = <<>> /\ justificaciones = {} /\ ediciones = <<>> /\ reloj = 1
    /\ usuarios = [u \in Usuarios |-> PerfilLibre]
    /\ respuesta = SinRespuesta /\ peticiones = <<>>
    /\ caso \in CasosJornada
    /\ resultado = <<>>

HorariosJornadaDe(c) == [u \in Usuarios |-> IF u = 1 THEN c.horarios ELSE <<>>]

\* admin_registros with accion csv/pdf over the table of the case: the
\* intervals with their worked time and breaks, and the sections built from
\* them
Jornada ==
    /\ resultado = <<>>
    /\ \E ints \in {PrepararIntervalos(TablaJornada(caso), HorariosJornadaDe(caso),
                                       AhoraJornada(caso))} :
          resultado' = <<[intervalos |-> ints,
                          secciones |-> build_user_sections(
                              ints, caso.modo, HorariosJornadaDe(caso))]>>
    /\ UNCHANGED <<registros, justificaciones, ediciones, reloj, usuarios, respuesta, peticiones, caso>>

NextJornada == Jornada

SpecJornada == InitJornada /\ [][NextJornada]_vars

\* the daily aggregates of the sections of the result
AgregadosDiarios ==
    IF resultado = <<>> THEN {}
    ELSE UNION {{s.dias[f] : f \in DOMAIN s.dias} : s \in Rango(resultado[1].secciones)}

\* C11 as the specification states it: every daily aggregate has
\* overtime = max(worked - expected, 0) and deficit = max(expected - worked, 0),
\* and exactly one of overtime and deficit is nonzero
C11_ExactamenteUno ==
    \A ag \in AgregadosDiarios :
        /\ ag.extra = Max(ag.trabajado - ag.esperado, 0)
        /\ ag.defecto = Max(ag.esperado - ag.trabajado, 0)
        /\ (ag.extra # 0) # (ag.defecto # 0)

\* C11: every daily aggregate has overtime = max(worked - expected, 0) and
\* deficit = max(expected - worked, 0); at most one of overtime and deficit is
\* nonzero, and both are zero exactly when the worked total equals the
\* expected total
C11_ALoSumoUno ==
    \A ag \in AgregadosDiarios :
        /\ ag.extra = Max(ag.trabajado - ag.esperado, 0)
        /\ ag.defecto = Max(ag.esperado - ag.trabajado, 0)
        /\ ~(ag.extra # 0 /\ ag.defecto # 0)
        /\ (ag.extra = 0 /\ ag.defecto = 0) <=> (ag.trabajado = ag.esperado)

\* a day whose worked total equals a positive expected total
C11_Testigo ==
    \E ag \in AgregadosDiarios :
        /\ ag.esperado > 0 /\ ag.trabajado = ag.esperado
        /\ ag.extra = 0 /\ ag.defecto = 0

\* the interval of the session of the case, as admin_registros prepared it
IntervaloJornada == resultado[1].intervalos[1]

\* clock_out - clock_in of the session of the case
DuracionBrutaCaso == caso.salida - EntradaJornada

\* the minutes of break the rows of the case record inside the session: a
\* break never closed runs up to the clock-out
DescansoRealCaso ==
    SumSeq([k \in 1..Len(caso.descansos) |->
               (IF caso.descansos[k][2] = Nulo THEN caso.salida
                ELSE caso.descansos[k][2]) - caso.descansos[k][1]])

\* the day-spec or global schedule that applies to the date of the case, as a
\* sequence of length 0 or 1
PoliticaCaso ==
    IF caso.horarios = <<>> THEN <<>>
    ELSE IF caso.horarios[1].use_per_day
    THEN DiaDe(caso.horarios[1], Weekday(caso.dia))
    ELSE <<caso.horarios[1]>>

\* the break the policy d declares: the fixed interval or the flexible minutes
DescansoDeclarado(d) ==
    IF d.break_type = "fixed" THEN d.break_end - d.break_start
    ELSE IF d.break_type = "flexible" THEN d.break_minutes
    ELSE 0

\* the break the policy d subtracts when the real break is real
DescansoSegunPolitica(d, real) ==
    IF d.break_paid THEN 0
    ELSE IF d.break_optional THEN real
    ELSE Max(real, DescansoDeclarado(d))

Min(a, b) == IF a <= b THEN a ELSE b

\* C12: for a complete interval on a working day of the applicable schedule,
\* the break calcular_extra_y_defecto_intervalo subtracts from the raw
\* duration is 0 if the break is paid, the real break if it is optional and
\* not paid, and otherwise the larger of the real and the theoretical break
\* (never more than the raw duration itself)
C12_DescansoRestado ==
    (/\ resultado # <<>> /\ caso.salida # Nulo
     /\ PoliticaCaso # <<>> /\ EsperadoDe(caso.horarios, caso.dia) > 0)
    => DuracionBrutaCaso - IntervaloJornada.trabajo_real
         = Min(DescansoSegunPolitica(PoliticaCaso[1], DescansoRealCaso), DuracionBrutaCaso)

\* a real break of 20 minutes under the fixed, unpaid, mandatory break of 30
\* minutes: 30 minutes are subtracted
C12_Testigo ==
    /\ resultado # <<>> /\ caso.salida = 970
    /\ caso.horarios = <<HorarioFijo>> /\ caso.descansos = <<<<720, 740>>>>
    /\ DescansoRealCaso = 20
    /\ DuracionBrutaCaso - IntervaloJornada.trabajo_real = 30

\* the break subtracted from the session of the case: the policy's rule when
\* a day-spec or global schedule applies to the date, the real break otherwise
DescansoEfectivoCaso ==
    IF PoliticaCaso = <<>> THEN DescansoRealCaso
    ELSE DescansoSegunPolitica(PoliticaCaso[1], DescansoRealCaso)

\* the daily aggregate of the date of the case
AgregadoCaso == resultado[1].secciones[1].dias[caso.dia]

\* C13: for every complete interval trabajo_real is max(raw duration -
\* effective break, 0), never negative and never above the raw duration; and
\* under the schedule 09:00-17:00 with a fixed, unpaid, mandatory break
\* 13:00-13:30, clock-in 09:00, break 13:00-13:20, clock-out 17:10 give 7h40m
\* worked, 7h30m expected, 10 minutes of overtime and no deficit
C13_TrabajoReal ==
    (resultado # <<>> /\ caso.salida # Nulo) =>
        /\ IntervaloJornada.trabajo_real = Max(DuracionBrutaCaso - DescansoEfectivoCaso, 0)
        /\ IntervaloJornada.trabajo_real >= 0
        /\ IntervaloJornada.trabajo_real <= DuracionBrutaCaso
        /\ (/\ caso.horarios = <<HorarioFijo>> /\ caso.salida = 970
            /\ caso.descansos = <<<<720, 740>>>>)
           => /\ IntervaloJornada.trabajo_real = 460
              /\ AgregadoCaso = [trabajado |-> 460, esperado |-> 450,
                                 extra |-> 10, defecto |-> 0]

\* the session of the example, in local time 09:00 to 17:10
C13_Testigo ==
    /\ resultado # <<>>
    /\ caso.horarios = <<HorarioFijo>> /\ caso.salida = 970
    /\ caso.descansos = <<<<720, 740>>>> /\ caso.dia = 0
    /\ to_local(IntervaloJornada.entrada_momento) = Combine(0, 540)
    /\ to_local(IntervaloJornada.salida_momento) = Combine(0, 1030)
    /\ AgregadoCaso.extra = 10

\* a session shorter than the mandatory break: nothing is left
C13_TestigoCorto ==
    /\ resultado # <<>> /\ caso.salida = 500 /\ caso.horarios = <<HorarioFijo>>
    /\ DuracionBrutaCaso < DescansoEfectivoCaso
    /\ IntervaloJornada.trabajo_real = 0

\* the section of user 1 in the result: the totals of the period
SeccionCaso == resultado[1].secciones[1]

\* C14: for a user without schedule the worked time of a complete interval is
\* max(raw duration - real break, 0), and at day and at period level the whole
\* worked amount is overtime with no expected time and no deficit
C14_SinHorario ==
    (resultado # <<>> /\ caso.salida # Nulo /\ caso.horarios = <<>>) =>
        /\ IntervaloJornada.trabajo_real = Max(DuracionBrutaCaso - DescansoRealCaso, 0)
        /\ AgregadoCaso.trabajado = IntervaloJornada.trabajo_real
        /\ AgregadoCaso.extra = AgregadoCaso.trabajado /\ AgregadoCaso.defecto = 0
        /\ SeccionCaso.trabajado = IntervaloJornada.trabajo_real
        /\ SeccionCaso.esperado = 0
        /\ SeccionCaso.extra = SeccionCaso.trabajado /\ SeccionCaso.defecto = 0

\* a session of 8h30m without breaks and without schedule: 8h30m of overtime
C14_Testigo ==
    /\ resultado # <<>> /\ caso.horarios = <<>>
    /\ caso.salida = 990 /\ caso.descansos = <<>>
    /\ IntervaloJornada.trabajo_real = 510
    /\ AgregadoCaso.extra = 510 /\ SeccionCaso.extra = 510

\* a session without schedule that holds a break of 40 minutes
C14_TestigoDescanso ==
    /\ resultado # <<>> /\ caso.horarios = <<>>
    /\ caso.salida = 990 /\ DescansoRealCaso = 40
    /\ SeccionCaso.extra = 470

\* C15: when a schedule is assigned but the date of a complete interval is
\* non-working (its theoretical duration is zero: the weekday is absent from a
\* per-weekday schedule, or the duration of the schedule clamps to zero), the
\* worked time is max(raw duration - real break, 0) and the whole worked total
\* of the day is overtime with no deficit
C15_DiaNoLaborable ==
    (/\ resultado # <<>> /\ caso.salida # Nulo
     /\ caso.horarios # <<>> /\ EsperadoDe(caso.horarios, caso.dia) = 0)
    => /\ IntervaloJornada.trabajo_real = Max(DuracionBrutaCaso - DescansoRealCaso, 0)
       /\ AgregadoCaso.extra = AgregadoCaso.trabajado
       /\ AgregadoCaso.defecto = 0

----------------------------------------------------------------------------
(* The raw duration of the intervals the builder hands to its callers *)

\* instants of the rows, in UTC: 08:00, 12:00, 16:30 and 23:50 of day 0,
\* 00:10 and 08:00 of day 1, 00:10, 02:00 and 08:00 of day 2, 08:00 of day 3
MomentosDuracion == {480, 720, 990, 1430, 1450, 1920, 2890, 3000, 3360, 4800}

\* tables of user 1 holding an entrada, a salida or both, in either order of
\* time
TablasDuracion ==
    {<<Registro(1, 1, "entrada", t, 40)>> : t \in MomentosDuracion}
    \cup {<<Registro(1, 1, "salida", t, 40)>> : t \in MomentosDuracion}
    \cup {<<Registro(1, 1, "entrada", t1, 40), Registro(2, 1, "salida", t2, 40)>> :
             t1 \in MomentosDuracion, t2 \in MomentosDuracion}

\* every interval agrupar_registros_en_intervalos builds from those tables
CasosDuracion == UNION {Rango(agrupar_registros_en_intervalos(t)) : t \in TablasDuracion}

InitDuracion ==
    /\ registros = <<>> /\ justificaciones = {} /\ ediciones = <<>> /\ reloj = 1
    /\ usuarios = [u \in Usuarios |-> PerfilLibre]
    /\ respuesta = SinRespuesta /\ peticiones = <<>>
    /\ caso \in CasosDuracion
    /\ resultado = <<>>

\* one call of calcular_duracion_trabajada_intervalo on the interval
Duracion ==
    /\ resultado = <<>>
    /\ resultado' = <<calcular_duracion_trabajada_intervalo(caso)>>
    /\ UNCHANGED <<registros, justificaciones, ediciones, reloj, usuarios, respuesta, peticiones, caso>>

NextDuracion == Duracion

SpecDuracion == InitDuracion /\ [][NextDuracion]_vars

C16_TestigoAbierto ==
    /\ resultado = <<Nulo>>
    /\ caso.entrada_momento # Nulo /\ caso.salida_momento = Nulo

----------------------------------------------------------------------------
(* The two break reconcilers over one session of user 1 *)

\* the breaks of a session: none, one closed, one never closed, a closed one
\* followed by a closed or a never closed one
DescansosReconciliador ==
    {<<>>, <<<<720, 740>>>>, <<<<720, 760>>>>, <<<<720, Nulo>>>>,
     <<<<600, 620>>, <<720, 740>>>>, <<<<600, 620>>, <<720, Nulo>>>>}

\* the instant of the call, as minutes of the day of the session (UTC)
AhorasReconciliador == {1000, 1200}

CasosReconciliador ==
    {[dia |-> d, salida |-> s, descansos |-> b, ahora |-> Combine(d, a)] :
        d \in {0, 1}, s \in {Nulo, 970, 990}, b \in DescansosReconciliador,
        a \in AhorasReconciliador}

InitReconciliador ==
    /\ registros = <<>> /\ justificaciones = {} /\ ediciones = <<>> /\ reloj = 1
    /\ usuarios = [u \in Usuarios |-> PerfilLibre]
    /\ respuesta = SinRespuesta /\ peticiones = <<>>
    /\ caso \in CasosReconciliador
    /\ resultado = <<>>

\* the dashboard and the admin list over the table of the case: the interval
\* of the session, its break by calcular_descanso_intervalo_para_usuario and
\* by calcular_descanso_intervalos
Reconciliar ==
    /\ resultado = <<>>
    /\ \E it \in {agrupar_registros_en_intervalos(TablaJornada(caso))[1]} :
          resultado' =
              <<[intervalo |-> it,
                 consulta |-> calcular_descanso_intervalo_para_usuario(
                                  TablaJornada(caso), it.usuario, it.entrada_momento,
                                  it.salida_momento, caso.ahora),
                 memoria |-> DescansoEnMemoria(it, TablaJornada(caso), caso.ahora)]>>
    /\ UNCHANGED <<registros, justificaciones, ediciones, reloj, usuarios, respuesta, peticiones, caso>>

NextReconciliador == Reconciliar

SpecReconciliador == InitReconciliador /\ [][NextReconciliador]_vars

\* the break of the case that was never closed, as a sequence of length 0 or 1
DescansoPendiente ==
    SelectSeq(caso.descansos, LAMBDA b : b[2] = Nulo)

\* the minutes of the closed breaks of the case
DescansosCerrados ==
    SumSeq([k \in 1..Len(caso.descansos) |->
               IF caso.descansos[k][2] = Nulo THEN 0
               ELSE caso.descansos[k][2] - caso.descansos[k][1]])

\* the end of the window of the interval: its salida, or the instant of the
\* call while it is open
LimiteCaso ==
    IF caso.salida = Nulo THEN caso.ahora ELSE Combine(caso.dia, caso.salida)

\* C17: in either reconciler a descanso_inicio without descanso_fin inside the
\* window of the interval is counted up to the boundary of the window, and the
\* break is in progress if and only if the interval has no salida: open
\* interval, elapsed time up to now and flag set; interval with salida, break
\* closed at the salida and flag not set
C17_DescansoPendiente ==
    (resultado # <<>> /\ DescansoPendiente # <<>>) =>
        /\ resultado[1].consulta.total
             = DescansosCerrados + (LimiteCaso - Combine(caso.dia, DescansoPendiente[1][1]))
        /\ resultado[1].memoria.descanso_total = resultado[1].consulta.total
        /\ resultado[1].consulta.en_curso <=> (resultado[1].intervalo.salida_momento = Nulo)
        /\ resultado[1].memoria.descanso_en_curso
             <=> (resultado[1].intervalo.salida_momento = Nulo)

\* an interval with salida whose last break was never closed: the break ends
\* at the salida and is not in progress
C17_Testigo ==
    /\ resultado # <<>> /\ caso.salida = 970
    /\ caso.descansos = <<<<600, 620>>, <<720, Nulo>>>>
    /\ resultado[1].consulta.total = 20 + 250
    /\ ~resultado[1].consulta.en_curso /\ ~resultado[1].memoria.descanso_en_curso

\* an open interval whose break was never closed: the break runs up to the
\* instant of the call and is in progress
C17_TestigoAbierto ==
    /\ resultado # <<>> /\ caso.salida = Nulo
    /\ caso.descansos = <<<<720, Nulo>>>> /\ caso.ahora = Combine(caso.dia, 1000)
    /\ resultado[1].memoria.descanso_total = 280
    /\ resultado[1].consulta.en_curso /\ resultado[1].memoria.descanso_en_curso

----------------------------------------------------------------------------
(* The theoretical duration of a schedule on a date *)

\* <<start, end>> of a schedule or day-spec: 09:00-17:00, the night shift
\* 22:00-06:00, 09:00-09:20, and 08:00-08:00
TramosTeorica == {<<540, 1020>>, <<1320, 360>>, <<540, 560>>, <<480, 480>>}

\* <<break_type, break_start, break_end, break_minutes>>: no break, the fixed
\* break 13:00-13:30, the fixed break 23:50-00:40, a flexible break of 30
\* minutes
DescansosTeorica ==
    {<<"none", Nulo, Nulo, Nulo>>, <<"fixed", 780, 810, Nulo>>,
     <<"fixed", 1430, 40, Nulo>>, <<"flexible", Nulo, Nulo, 30>>}

\* the uniform schedules, the per-weekday schedules holding one day-spec for
\* Monday or for Tuesday, and the per-weekday schedule without day-specs
HorariosTeorica ==
    {ScheduleGlobal(t[1], t[2], b[1], b[2], b[3], b[4], FALSE, p) :
        t \in TramosTeorica, b \in DescansosTeorica, p \in BOOLEAN}
    \cup {SchedulePorDias(<<ScheduleDay(dow, t[1], t[2], b[1], b[2], b[3], b[4], FALSE, p)>>) :
             dow \in {0, 1}, t \in TramosTeorica, b \in DescansosTeorica, p \in BOOLEAN}
    \cup {SchedulePorDias(<<>>)}

\* a Monday, a Tuesday and a Saturday
FechasTeorica == {0, 1, 5}

CasosTeorica == {[schedule |-> h, fecha |-> f] : h \in HorariosTeorica, f \in FechasTeorica}

InitTeorica ==
    /\ registros = <<>> /\ justificaciones = {} /\ ediciones = <<>> /\ reloj = 1
    /\ usuarios = [u \in Usuarios |-> PerfilLibre]
    /\ respuesta = SinRespuesta /\ peticiones = <<>>
    /\ caso \in CasosTeorica
    /\ resultado = <<>>

\* one call of calcular_jornada_teorica
Teorica ==
    /\ resultado = <<>>
    /\ resultado' = <<calcular_jornada_teorica(caso.schedule, caso.fecha)>>
    /\ UNCHANGED <<registros, justificaciones, ediciones, reloj, usuarios, respuesta, peticiones, caso>>

NextTeorica == Teorica

SpecTeorica == InitTeorica /\ [][NextTeorica]_vars

\* the day-specs of the schedule of the case for the weekday of its date
DiasDelCaso ==
    SelectSeq(caso.schedule.days, LAMBDA d : d.day_of_week = caso.fecha % 7)

\* end - start, plus 24 hours when end <= start
TramoDe(d) ==
    IF d.end_time <= d.start_time THEN d.end_time - d.start_time + 1440
    ELSE d.end_time - d.start_time

\* the theoretical break: nothing if paid, the length of the fixed interval,
\* the configured minutes of a flexible break, nothing without break
DescansoTeoricoDe(d) ==
    IF d.break_paid THEN 0
    ELSE IF d.break_type = "fixed"
    THEN (IF d.break_end <= d.break_start THEN d.break_end - d.break_start + 1440
          ELSE d.break_end - d.break_start)
    ELSE IF d.break_type = "flexible" THEN d.break_minutes
    ELSE 0

\* C18: calcular_jornada_teorica is zero when a per-weekday schedule has no
\* day-spec for the weekday of the date; otherwise, for the day-spec or for the
\* uniform schedule, it is end - start (plus 24h when end <= start) minus the
\* theoretical break (0 if paid, the fixed interval, the flexible minutes, 0
\* without break), and never below zero
C18_JornadaTeorica ==
    resultado # <<>> =>
        IF caso.schedule.use_per_day
        THEN IF DiasDelCaso = <<>> THEN resultado[1] = 0
             ELSE resultado[1]
                    = Max(TramoDe(DiasDelCaso[1]) - DescansoTeoricoDe(DiasDelCaso[1]), 0)
        ELSE resultado[1] = Max(TramoDe(caso.schedule) - DescansoTeoricoDe(caso.schedule), 0)

\* the night shift 22:00-06:00 with the unpaid fixed break 23:50-00:40, as the
\* day-spec of the weekday of the date: 7h10m
C18_Testigo ==
    /\ resultado = <<430>>
    /\ caso.schedule.use_per_day /\ DiasDelCaso # <<>>
    /\ DiasDelCaso[1].start_time = 1320 /\ DiasDelCaso[1].end_time = 360
    /\ DiasDelCaso[1].break_type = "fixed" /\ DiasDelCaso[1].break_start = 1430
    /\ ~DiasDelCaso[1].break_paid

\* a per-weekday schedule on a weekday without day-spec
C18_TestigoSinDia ==
    /\ resultado = <<0>>
    /\ caso.schedule.use_per_day /\ caso.schedule.days # <<>> /\ DiasDelCaso = <<>>

\* a uniform schedule shorter than its break
C18_TestigoCero ==
    /\ resultado = <<0>>
    /\ ~caso.schedule.use_per_day
    /\ TramoDe(caso.schedule) < DescansoTeoricoDe(caso.schedule)

----------------------------------------------------------------------------
(* The geofence of fichar *)

\* the default tolerance of determinar_ubicacion_por_coordenadas, in metres
margen_extra_m == 10

MsgUbicacion == "No estas dentro de ninguna de tus ubicaciones autorizadas."

\* the answers of a request that got as far as the geofence block: rejected
\* there, rejected later for want of a motive, or accepted
LlegaAGeocerca(msg) ==
    msg \in {MsgUbicacion, "Has superado tu tiempo esperado. Indica un motivo.", ""}

\* the distance between two points of the line
Distancia(a, b) == IF a >= b THEN a - b ELSE b - a

\* the user holds a location called Flexible, in any letter case
TieneFlexible(u) ==
    \E i \in 1..Len(usuarios[u].ubicaciones) :
        usuarios[u].ubicaciones[i].name \in {"Flexible", "flexible", "FLEXIBLE"}

\* C19: a punch of a user who does not hold Flexible passes the geofence of
\* fichar if and only if its distance to one of the user's locations is at
\* most the radius of that location plus the tolerance of 10: with radius 50
\* a punch at distance 55 passes and one at distance 65 is rejected
C19_GeocercaConTolerancia ==
    [][\A u \in Usuarios : \A f \in Formularios(u) :
          (/\ Fichar(u, f.accion, f.kiosko, f.pos, f.motivo)
           /\ ~TieneFlexible(u)
           /\ f.pos \notin {SinPos, PosInvalida}
           /\ LlegaAGeocerca(respuesta'.msg))
          => ((respuesta'.msg # MsgUbicacion)
              <=> \E i \in 1..Len(usuarios[u].ubicaciones) :
                     Distancia(f.pos, usuarios[u].ubicaciones[i].pos)
                        <= usuarios[u].ubicaciones[i].radius_meters + margen_extra_m)]_vars

\* C20: a request of a user whose locations include one called Flexible, in
\* any letter case, is never answered with the rejection of the geofence,
\* whatever coordinate it carries and whatever the radii of the other
\* locations of the user
C20_FlexibleSinGeocerca ==
    \A u \in Usuarios :
        (respuesta.usuario = u /\ TieneFlexible(u)) => respuesta.msg # MsgUbicacion

\* a punch 65 metres away from the only location with a radius (50 metres) was
\* accepted for a user who holds Flexible
C20_Testigo ==
    /\ TieneFlexible(1) /\ respuesta.usuario = 1 /\ respuesta.ok
    /\ registros # <<>>
    /\ registros[Len(registros)].usuario_id = 1
    /\ registros[Len(registros)].pos = 65
    /\ \A i \in 1..Len(usuarios[1].ubicaciones) :
          \/ usuarios[1].ubicaciones[i].name = "Flexible"
          \/ Distancia(65, usuarios[1].ubicaciones[i].pos)
                > usuarios[1].ubicaciones[i].radius_meters + margen_extra_m

\* the same for the user whose sentinel location is written FLEXIBLE
C20_TestigoMayus ==
    /\ usuarios[1] = PerfilFlexibleMayus /\ respuesta.usuario = 1 /\ respuesta.ok
    /\ registros # <<>>
    /\ registros[Len(registros)].pos = 65

----------------------------------------------------------------------------
(* The schedule enforcement block of fichar *)

\* the night shift 22:00-06:00, uniform and as the day-spec of Monday
HorarioNoche == ScheduleGlobal(1320, 360, "none", Nulo, Nulo, Nulo, FALSE, FALSE)
HorarioNocheLunes ==
    SchedulePorDias(<<ScheduleDay(0, 1320, 360, "none", Nulo, Nulo, Nulo, FALSE, FALSE)>>)

\* usuario.schedules of the user who punches
HorariosVentana ==
    {<<>>, <<HorarioFlex>>, <<HorarioNoche>>, <<HorarioLunes>>,
     <<HorarioFlex, HorarioNoche>>, <<HorarioNocheLunes>>}

\* <<has settings, enforce_schedule, margin_minutes>> of the user
AjustesVentana ==
    {<<FALSE, FALSE, Nulo>>, <<TRUE, FALSE, 30>>, <<TRUE, TRUE, Nulo>>,
     <<TRUE, TRUE, 0>>, <<TRUE, TRUE, 30>>}

\* local times of day of the request: 01:00, 06:20, 06:40, 08:20, 08:40,
\* 12:00, 17:20, 17:40, 21:40 and 23:00
HorasVentana == {60, 380, 400, 500, 520, 720, 1040, 1060, 1300, 1380}

\* the request arrives on a Monday or on a Tuesday
CasosVentana ==
    {[perfil |-> Perfil(<<Oficina>>, h, a[1], a[2], a[3]), ahora |-> Combine(d, t)] :
        h \in HorariosVentana, a \in AjustesVentana, d \in {0, 1}, t \in HorasVentana}

InitVentana ==
    /\ registros = <<>> /\ justificaciones = {} /\ ediciones = <<>> /\ reloj = 1
    /\ usuarios = [u \in Usuarios |-> PerfilLibre]
    /\ respuesta = SinRespuesta /\ peticiones = <<>>
    /\ caso \in CasosVentana
    /\ resultado = <<>>

\* fichar, from the read of schedule_settings to the flash of the window
Ventana ==
    /\ resultado = <<>>
    /\ resultado' = <<ValidarHorario(caso.perfil, caso.ahora)>>
    /\ UNCHANGED <<registros, justificaciones, ediciones, reloj, usuarios, respuesta, peticiones, caso>>

NextVentana == Ventana

SpecVentana == InitVentana /\ [][NextVentana]_vars

\* start and end of the schedule s on the weekday of the date, as a sequence
\* of length 0 or 1
TramoDeHoy(s, fecha) ==
    IF s.use_per_day
    THEN [k \in 1..Len(SelectSeq(s.days, LAMBDA d : d.day_of_week = fecha % 7)) |->
             <<SelectSeq(s.days, LAMBDA d : d.day_of_week = fecha % 7)[k].start_time,
               SelectSeq(s.days, LAMBDA d : d.day_of_week = fecha % 7)[k].end_time>>]
    ELSE <<<<s.start_time, s.end_time>>>>

\* the time of day hora lies in [start - margin, end + margin]; a window with
\* end <= start runs across midnight
EnVentana(tramo, hora, margin) ==
    IF tramo[2] <= tramo[1]
    THEN hora >= tramo[1] - margin \/ hora <= tramo[2] + margin
    ELSE tramo[1] - margin <= hora /\ hora <= tramo[2] + margin

\* C21: with enforcement enabled a punch is authorised if and only if the
\* local time lies in [start - margin, end + margin] of one of the user's
\* schedules resolved for today's weekday, a schedule with end <= start
\* wrapping across midnight (so a punch after midnight and before end + margin
\* is inside); without schedule the punch is rejected; with enforcement
\* disabled the window is not checked
C21_VentanaHoraria ==
    resultado # <<>> =>
        IF ~(caso.perfil.tiene_settings /\ caso.perfil.enforce_schedule)
        THEN resultado[1] = ""
        ELSE (resultado[1] = "")
             <=> \E i \in 1..Len(caso.perfil.schedules) :
                    /\ TramoDeHoy(caso.perfil.schedules[i], caso.ahora \div 1440) # <<>>
                    /\ EnVentana(TramoDeHoy(caso.perfil.schedules[i], caso.ahora \div 1440)[1],
                                 caso.ahora % 1440,
                                 IF caso.perfil.margin_minutes = Nulo THEN 0
                                 ELSE caso.perfil.margin_minutes)

----------------------------------------------------------------------------
(* The admin editor of intervals: editar_registro and admin_registro_nuevo *)

\* admin requests handled in one behaviour
MaxEdiciones == 1

\* models.RegistroEdicion: the prior values of an edited row
RegistroEdicion(registro_id, old_accion, old_momento, old_pos) ==
    [registro_id |-> registro_id, old_accion |-> old_accion,
     old_momento |-> old_momento, old_pos |-> old_pos]

\* a datetime-local or HH:MM field that does not parse
CampoInvalido == Nulo - 1

\* Registro.query.get(id), as a sequence of length 0 or 1
BuscarRegistro(tabla, id) == SelectSeq(tabla, LAMBDA r : r.id = id)

\* the id the next inserted row receives
SiguienteId(tabla) ==
    IF tabla = <<>> THEN 1
    ELSE (CHOOSE n \in {tabla[i].id : i \in 1..Len(tabla)} :
             \A i \in 1..Len(tabla) : tabla[i].id <= n) + 1

\* the table with the row of that id replaced by fila
ActualizarRegistro(tabla, fila) ==
    [i \in 1..Len(tabla) |-> IF tabla[i].id = fila.id THEN fila ELSE tabla[i]]

MsgEntradaPosterior == "La fecha/hora de entrada no puede ser posterior a la de salida."

\* the all-or-nothing test of both handlers, on the rows of the session (a
\* sequence of length 0 or 1 each): both present and entrada later than salida
EntradaPosterior_nunca(entrada, salida) == FALSE

EntradaPosterior(entrada, salida) ==
    entrada # <<>> /\ salida # <<>> /\ entrada[1].momento > salida[1].momento

\* editar_registro, the entrada or the salida block: with a timestamp in the
\* form the row of that id is audited and overwritten, or a new row is added;
\* s carries the table and the audit rows of the session
EditarLado(s, accion, id, momento_local, usuario_id, pos) ==
    IF momento_local = Nulo THEN s
    ELSE IF BuscarRegistro(s.tabla, id) # <<>>
    THEN [tabla |-> ActualizarRegistro(s.tabla,
                        Registro(id, usuario_id, accion,
                                 local_to_utc_naive(momento_local), pos)),
          eds |-> Append(s.eds,
                         RegistroEdicion(id, BuscarRegistro(s.tabla, id)[1].accion,
                                         BuscarRegistro(s.tabla, id)[1].momento,
                                         BuscarRegistro(s.tabla, id)[1].pos)),
          entrada_id |-> s.entrada_id, salida_id |-> s.salida_id]
    ELSE [tabla |-> Append(s.tabla,
                        Registro(SiguienteId(s.tabla), usuario_id, accion,
                                 local_to_utc_naive(momento_local), pos)),
          eds |-> s.eds,
          entrada_id |-> IF accion = "entrada" THEN SiguienteId(s.tabla) ELSE s.entrada_id,
          salida_id |-> IF accion = "salida" THEN SiguienteId(s.tabla) ELSE s.salida_id]

\* editar_registro, descanso_manual: the break rows of the user inside the
\* interval are deleted and, for a positive total, one break centred in the
\* interval is inserted
ReescribirDescanso(tabla, usuario_id, entrada, salida, total_min) ==
    LET sin_descansos ==
            SelectSeq(tabla, LAMBDA r :
                ~(/\ r.usuario_id = usuario_id
                  /\ r.momento >= entrada.momento /\ r.momento <= salida.momento
                  /\ EsDescanso(r)))
        dur_trabajo == salida.momento - entrada.momento
        duracion_descanso == IF dur_trabajo < total_min THEN dur_trabajo ELSE total_min
        inicio_descanso == entrada.momento + (dur_trabajo \div 2) - (duracion_descanso \div 2)
    IN IF total_min > 0
       THEN sin_descansos
            \o <<Registro(SiguienteId(tabla), usuario_id, "descanso_inicio",
                          inicio_descanso, entrada.pos),
                 Registro(SiguienteId(tabla) + 1, usuario_id, "descanso_fin",
                          inicio_descanso + duracion_descanso, salida.pos)>>
       ELSE sin_descansos

\* POST /admin/registros/<id>/editar: the flash message, and the table and
\* audit rows the request leaves
ResultadoEditar(tabla, eds, f) ==
    LET Sin(msg) == [msg |-> msg, tabla |-> tabla, eds |-> eds]
        Final(s, entrada, salida) ==
            IF EntradaPosterior(entrada, salida)
            THEN Sin(MsgEntradaPosterior)
            ELSE IF entrada # <<>> /\ salida # <<>> /\ f.descanso # Nulo
            THEN IF f.descanso = CampoInvalido
                 THEN Sin("Formato de descanso no valido (usa HH:MM).")
                 ELSE [msg |-> "Registro actualizado correctamente.",
                       tabla |-> ReescribirDescanso(s.tabla, f.usuario, entrada[1],
                                                    salida[1], f.descanso),
                       eds |-> s.eds]
            ELSE [msg |-> "Registro actualizado correctamente.",
                  tabla |-> s.tabla, eds |-> s.eds]
        Cerrar(s) ==
            Final(s, BuscarRegistro(s.tabla, s.entrada_id),
                  BuscarRegistro(s.tabla, s.salida_id))
    IN IF f.eliminar
       THEN [msg |-> "Registro (intervalo) eliminado correctamente.",
             tabla |-> SelectSeq(tabla, LAMBDA r : r.id \notin {f.entrada_id, f.salida_id}),
             eds |-> eds]
       ELSE IF f.entrada_momento = CampoInvalido
       THEN Sin("Fecha y hora de entrada no validas.")
       ELSE IF f.salida_momento = CampoInvalido
       THEN Sin("Fecha y hora de salida no validas.")
       ELSE Cerrar(EditarLado(
                EditarLado([tabla |-> tabla, eds |-> eds,
                            entrada_id |-> f.entrada_id, salida_id |-> f.salida_id],
                           "entrada", f.entrada_id, f.entrada_momento, f.usuario, f.pos),
                "salida", f.salida_id, f.salida_momento, f.usuario, f.pos))

\* POST /admin/registros/nuevo
ResultadoNuevo(tabla, eds, f) ==
    LET Sin(msg) == [msg |-> msg, tabla |-> tabla, eds |-> eds]
        entrada ==
            IF f.entrada_momento = Nulo THEN <<>>
            ELSE <<Registro(SiguienteId(tabla), f.usuario, "entrada",
                            local_to_utc_naive(f.entrada_momento), f.pos)>>
        salida ==
            IF f.salida_momento = Nulo THEN <<>>
            ELSE <<Registro(SiguienteId(tabla \o entrada), f.usuario, "salida",
                            local_to_utc_naive(f.salida_momento), f.pos)>>
    IN IF f.entrada_momento = CampoInvalido THEN Sin("Datos de entrada no validos.")
       ELSE IF f.salida_momento = CampoInvalido THEN Sin("Datos de salida no validos.")
       ELSE IF EntradaPosterior(entrada, salida) THEN Sin(MsgEntradaPosterior)
       ELSE IF entrada = <<>> /\ salida = <<>>
       THEN Sin("Debes indicar al menos una entrada o una salida.")
       ELSE [msg |-> "", tabla |-> tabla \o entrada \o salida, eds |-> eds]

\* the flash messages of success of the two handlers
MensajesDeExito ==
    {"", "Registro actualizado correctamente.",
     "Registro (intervalo) eliminado correctamente."}

\* the value of a datetime-local field: empty, unparseable, or 09:00 or 18:00
\* local time of day 0
MomentosForm == {Nulo, CampoInvalido, 540, 1080}

\* the value of descanso_manual: empty, unparseable, 00:00 or 00:30
DescansosForm == {Nulo, CampoInvalido, 0, 30}

\* the hidden entrada_id / salida_id of the edit form: those of an interval of
\* the listing
IdsForm(tabla) ==
    {<<it.entrada_id, it.salida_id>> : it \in Rango(agrupar_registros_en_intervalos(tabla))}

\* one form of the editor
FormularioEditar(ids, usuario, eliminar, entrada_momento, salida_momento, descanso) ==
    [usuario |-> usuario, entrada_id |-> ids[1], salida_id |-> ids[2],
     eliminar |-> eliminar, entrada_momento |-> entrada_momento,
     salida_momento |-> salida_momento, descanso |-> descanso, pos |-> 40]

\* the forms the editor submits for the intervals of the listing: the delete
\* button, or new values for user 1, or for user 2 without touching the break
FormulariosEditar(tabla) ==
    UNION {{FormularioEditar(ids, 1, TRUE, Nulo, Nulo, Nulo)}
           \cup {FormularioEditar(ids, 1, FALSE, em, sm, d) :
                    em \in MomentosForm, sm \in MomentosForm, d \in DescansosForm}
           \cup {FormularioEditar(ids, 2, FALSE, em, sm, Nulo) :
                    em \in MomentosForm, sm \in MomentosForm} :
           ids \in IdsForm(tabla)}

FormulariosNuevo ==
    [usuario : Usuarios, entrada_momento : MomentosForm, salida_momento : MomentosForm,
     pos : {40}]

\* the registro table the editor starts from: empty, a session of user 1
\* 08:00-16:10 UTC, that session with a break 12:00-12:20, an open session,
\* or overlapping sessions of the two users
TablasEdicion ==
    {<<>>,
     <<Registro(1, 1, "entrada", 480, 40), Registro(2, 1, "salida", 970, 40)>>,
     <<Registro(1, 1, "entrada", 480, 40), Registro(2, 1, "descanso_inicio", 720, 40),
       Registro(3, 1, "descanso_fin", 740, 40), Registro(4, 1, "salida", 970, 40)>>,
     <<Registro(1, 1, "entrada", 480, 40)>>,
     <<Registro(1, 2, "entrada", 480, 40), Registro(2, 1, "entrada", 720, 40),
       Registro(3, 2, "salida", 740, 40), Registro(4, 1, "salida", 970, 40)>>}

InitEdicion ==
    /\ registros \in TablasEdicion
    /\ justificaciones = {} /\ ediciones = <<>> /\ reloj = 1
    /\ usuarios = [u \in Usuarios |-> PerfilLibre]
    /\ respuesta = SinRespuesta /\ peticiones = <<>>
    /\ caso = <<>> /\ resultado = <<>>

Editar(f) ==
    /\ reloj <= MaxEdiciones
    /\ \E r \in {ResultadoEditar(registros, ediciones, f)} :
          /\ registros' = r.tabla
          /\ ediciones' = r.eds
          /\ respuesta' = [usuario |-> f.usuario, accion |-> "editar",
                           ok |-> r.msg \in MensajesDeExito, msg |-> r.msg]
    /\ reloj' = reloj + 1
    /\ UNCHANGED <<justificaciones, usuarios, peticiones, caso, resultado>>

Nuevo(f) ==
    /\ reloj <= MaxEdiciones
    /\ \E r \in {ResultadoNuevo(registros, ediciones, f)} :
          /\ registros' = r.tabla
          /\ ediciones' = r.eds
          /\ respuesta' = [usuario |-> f.usuario, accion |-> "nuevo",
                           ok |-> r.msg \in MensajesDeExito, msg |-> r.msg]
    /\ reloj' = reloj + 1
    /\ UNCHANGED <<justificaciones, usuarios, peticiones, caso, resultado>>

NextEdicion ==
    \/ reloj <= MaxEdiciones /\ \E f \in FormulariosEditar(registros) : Editar(f)
    \/ reloj <= MaxEdiciones /\ \E f \in FormulariosNuevo : Nuevo(f)

SpecEdicion == InitEdicion /\ [][NextEdicion]_vars

\* the entrada and salida timestamps (UTC) a submission results in: the value
\* of the form where one is given, else that of the stored row, else Nulo
MomentoResultante(tabla, id, momento_local) ==
    IF momento_local \notin {Nulo, CampoInvalido} THEN momento_local - TzOffset
    ELSE IF \E i \in 1..Len(tabla) : tabla[i].id = id
    THEN (CHOOSE r \in Rango(tabla) : r.id = id).momento
    ELSE Nulo

\* a submission that parses and results in an entrada later than its salida
SumisionInvertida(tabla, entrada_id, salida_id, entrada_momento, salida_momento) ==
    /\ CampoInvalido \notin {entrada_momento, salida_momento}
    /\ MomentoResultante(tabla, entrada_id, entrada_momento) # Nulo
    /\ MomentoResultante(tabla, salida_id, salida_momento) # Nulo
    /\ MomentoResultante(tabla, entrada_id, entrada_momento)
         > MomentoResultante(tabla, salida_id, salida_momento)

\* the step rejected the submission and persisted nothing of it
RechazadaSinPersistir ==
    /\ registros' = registros /\ ediciones' = ediciones
    /\ respuesta'.msg = MsgEntradaPosterior /\ ~respuesta'.ok

\* C22: in editar_registro and admin_registro_nuevo a submission whose
\* resulting entrada is later than its salida is rejected with the message of
\* the inverted interval, and the step leaves the registro table and the audit
\* table exactly as they were (no insert, no update, no audit row, no rewrite
\* of break rows).
C22_TodoONada ==
    [][/\ \A f \in FormulariosEditar(registros) :
            (/\ ~f.eliminar
             /\ SumisionInvertida(registros, f.entrada_id, f.salida_id,
                                  f.entrada_momento, f.salida_momento)
             /\ Editar(f))
                => RechazadaSinPersistir
       /\ \A f \in FormulariosNuevo :
            (/\ SumisionInvertida(registros, Nulo, Nulo,
                                  f.entrada_momento, f.salida_momento)
             /\ Nuevo(f))
                => RechazadaSinPersistir]_vars

\* an edit form with a break and an entrada after the stored salida was
\* rejected: the session still has its rows and its break
C22_Testigo ==
    /\ respuesta.accion = "editar" /\ respuesta.msg = MsgEntradaPosterior
    /\ \E i \in 1..Len(registros) : registros[i].accion = "descanso_inicio"
    /\ ediciones = <<>>

\* a creation form with entrada 18:00 and salida 09:00 was rejected
C22_TestigoNuevo ==
    /\ respuesta.accion = "nuevo" /\ respuesta.msg = MsgEntradaPosterior
    /\ registros = <<>>

\* C24: punch events are append-only: every row of the registro table before
\* a step of the admin editor is still in the table after it with the same
\* id, action, timestamp, user and coordinates (an edit would add a new row
\* and an audit row instead of changing or removing the stored one).
C24_SoloAnadir ==
    [][\A i \in 1..Len(registros) :
          \E j \in 1..Len(registros') : registros'[j] = registros[i]]_vars

----------------------------------------------------------------------------
(* Frame of the rejected punches *)

MsgMotivo == "Has superado tu tiempo esperado. Indica un motivo."

\* C23: a step of fichar that answers with a rejection leaves the registro
\* table and the justifications exactly as they were; and a step that changes
\* the table appends exactly one row, of the user and action of an accepted
\* request, with valid coordinates, for a user that has a location.
C23_RechazoSinEfecto ==
    [][/\ ~respuesta'.ok =>
            (registros' = registros /\ justificaciones' = justificaciones)
       /\ registros' # registros =>
            (/\ respuesta'.ok
             /\ respuesta'.accion \in Acciones
             /\ Anade(respuesta'.usuario, respuesta'.accion)
             /\ registros'[Len(registros')].pos \notin {SinPos, PosInvalida}
             /\ usuarios[respuesta'.usuario].ubicaciones # <<>>)]_vars

\* a salida beyond the expected time was refused for want of a motive, after
\* its row had been flushed: the session is still open
C23_Testigo ==
    /\ respuesta = [usuario |-> 1, accion |-> "salida", ok |-> FALSE, msg |-> MsgMotivo]
    /\ UltimoTrabajo(registros, 1) = "entrada"

\* an entrada from outside every radius was refused on an empty table
C23_TestigoGeocerca ==
    /\ respuesta.accion = "entrada" /\ ~respuesta.ok
    /\ respuesta.msg = "No estas dentro de ninguna de tus ubicaciones autorizadas."
    /\ registros = <<>>

----------------------------------------------------------------------------
(* The date an interval is anchored to *)

\* entrada instants (UTC) of the anchoring cases: mornings, and the hour
\* before and after midnight UTC of days 0 and 1
EntradasAncla == {480, 1370, 1380, 1400, 1439, 1440, 1450, 1500, 2810, 2820, 2850, 2880}

\* session lengths of the anchoring cases; Nulo is a session still open
DuracionesAncla == {Nulo, 30, 120, 480, 600}

CasosAncla ==
    {[entrada |-> e, salida |-> IF d = Nulo THEN Nulo ELSE e + d, horarios |-> h] :
        e \in EntradasAncla, d \in DuracionesAncla, h \in {<<>>, <<HorarioFlex>>}}

\* the registro rows of a case, of user 1
TablaAncla(c) ==
    <<Registro(1, 1, "entrada", c.entrada, 40)>>
    \o (IF c.salida = Nulo THEN <<>> ELSE <<Registro(2, 1, "salida", c.salida, 40)>>)

InitAncla ==
    /\ caso \in CasosAncla
    /\ resultado = <<>>
    /\ registros = <<>> /\ justificaciones = {} /\ ediciones = <<>> /\ reloj = 1
    /\ usuarios = [u \in Usuarios |-> PerfilLibre]
    /\ respuesta = SinRespuesta /\ peticiones = <<>>

\* the date the interval of the case is grouped under by the builder and the
\* report, and what the clock-out check counts for the local date of the
\* salida (Nulo while the session is open)
Anclar ==
    /\ resultado = <<>>
    /\ \E it \in {agrupar_registros_en_intervalos(TablaAncla(caso))[1]} :
          resultado' =
             <<[fecha_base |-> fecha_base(it),
                grupo |-> ClaveGrupo(it)[2],
                trabajado |->
                   IF caso.salida = Nulo THEN Nulo
                   ELSE calcular_trabajado_vs_esperado(
                            1, caso.horarios, Fecha(to_local(caso.salida)),
                            TablaAncla(caso), TablaAncla(caso), caso.salida).trabajado]>>
    /\ UNCHANGED <<registros, justificaciones, ediciones, reloj, usuarios, respuesta, peticiones, caso>>

NextAncla == Anclar

SpecAncla == InitAncla /\ [][NextAncla]_vars

\* the net work of the session of the case
TrabajoDelCaso ==
    calcular_extra_y_defecto_intervalo(
        agrupar_registros_en_intervalos(TablaAncla(caso))[1], caso.horarios,
        TablaAncla(caso), caso.salida).trabajo_real

\* C25: the date an interval is anchored to, for the dedup groups and the
\* daily totals, is the local calendar date of its entrada, and a closed
\* session whose entrada and salida fall on one local date counts its work in
\* the clock-out total of that local date.
C25_FechaLocal ==
    resultado # <<>> =>
       /\ resultado[1].fecha_base = Fecha(to_local(caso.entrada))
       /\ resultado[1].grupo = Fecha(to_local(caso.entrada))
       /\ (/\ caso.salida # Nulo
           /\ Fecha(to_local(caso.salida)) = Fecha(to_local(caso.entrada)))
          => resultado[1].trabajado = TrabajoDelCaso

----------------------------------------------------------------------------
(* The gate as a machine of three states *)

\* the state of user u read off the history: no session, a session open, or
\* a session open with a break open
Estado(tabla, u) ==
    IF UltimoTrabajo(tabla, u) # "entrada" THEN "sin_sesion"
    ELSE IF DescansosAbiertos(tabla, u) # {} THEN "descanso_abierto"
    ELSE "sesion_abierta"

\* the reasons of the sequence gate for refusing a salida
RechazosDeSecuencia ==
    {"Tu primer fichaje debe ser una ENTRADA, no una salida.",
     "Ya has fichado SALIDA. Debes fichar ENTRADA antes de otra SALIDA."}

\* C26: every user starts in no-session (a user without events is in it);
\* every accepted salida, from session-open and from break-open alike, leads
\* to no-session; a salida of a user with a session open, with or without a
\* break open, is never refused by the sequence gate (only by the other
\* gates); and in no-session no descanso_inicio and no descanso_fin is
\* appended (the next event appended for the user is an entrada).
C26_TresEstados ==
    [][\A u \in Usuarios :
          /\ DeUsuario(registros, u) = <<>> => Estado(registros, u) = "sin_sesion"
          /\ Anade(u, "salida") =>
                (/\ Estado(registros, u) \in {"sesion_abierta", "descanso_abierto"}
                 /\ Estado(registros', u) = "sin_sesion")
          /\ (/\ Estado(registros, u) # "sin_sesion"
              /\ respuesta' = [usuario |-> u, accion |-> "salida", ok |-> FALSE,
                               msg |-> respuesta'.msg])
             => respuesta'.msg \notin RechazosDeSecuencia
          /\ Estado(registros, u) = "sin_sesion" =>
                (/\ ~Anade(u, "descanso_inicio") /\ ~Anade(u, "descanso_fin")
                 /\ ~Anade(u, "salida"))]_vars

\* a salida was accepted while a break was open: the break was never closed
\* and the user is back in no-session
C26_Testigo ==
    /\ respuesta = [usuario |-> 1, accion |-> "salida", ok |-> TRUE, msg |-> ""]
    /\ Len(registros) >= 3
    /\ registros[Len(registros)].accion = "salida"
    /\ registros[Len(registros) - 1].accion = "descanso_inicio"
    /\ Estado(registros, 1) = "sin_sesion"

\* after that salida a descanso_fin was refused
C26_TestigoDescanso ==
    /\ respuesta.usuario = 1 /\ respuesta.accion = "descanso_fin" /\ ~respuesta.ok
    /\ Len(registros) >= 3
    /\ registros[Len(registros)].accion = "salida"
    /\ registros[Len(registros) - 1].accion = "descanso_inicio"

----------------------------------------------------------------------------
(* Properties of the pairing pass, the dedup and the final order *)

\* the entrada/salida rows of user u in the list of the case, by timestamp
EventosDelCaso(u) == EventosTrabajo(caso, u)

\* what the pairing of the sorted events ev must produce, as pairs
\* <<entrada id, salida id>>: a salida right after an entrada closes it, an
\* entrada followed by another entrada or by nothing is an orphan, a salida
\* that follows no entrada is an orphan
ParesEsperados(ev) ==
    {<<ev[i].id, ev[i + 1].id>> : i \in {k \in 1..(Len(ev) - 1) :
         ev[k].accion = "entrada" /\ ev[k + 1].accion = "salida"}}
    \cup {<<ev[i].id, Nulo>> : i \in {k \in 1..Len(ev) :
         /\ ev[k].accion = "entrada"
         /\ (k = Len(ev) \/ ev[k + 1].accion = "entrada")}}
    \cup {<<Nulo, ev[i].id>> : i \in {k \in 1..Len(ev) :
         /\ ev[k].accion = "salida"
         /\ (k = 1 \/ ev[k - 1].accion = "salida")}}

\* the user of the row with that id in the list of the case
UsuarioDeFila(id) == (CHOOSE r \in Rango(caso) : r.id = id).usuario_id

\* C27: the pairing pass over each user's entrada/salida events sorted by
\* timestamp yields exactly: a complete interval for every salida that comes
\* right after a pending entrada, an entrada-only orphan for every entrada
\* followed by another entrada or left pending at the end, and a salida-only
\* orphan for every salida with no pending entrada; every event is used once
\* and the two events of an interval are of the same user.
C27_Emparejamiento ==
    resultado # <<>> =>
       \E ints \in {IntervalosSinLimpiar(caso)} :
          /\ {<<it.entrada_id, it.salida_id>> : it \in Rango(ints)}
               = UNION {ParesEsperados(EventosDelCaso(u)) : u \in Usuarios}
          /\ Len(ints) = Cardinality({<<it.entrada_id, it.salida_id>> : it \in Rango(ints)})
          /\ \A it \in Rango(ints) :
                /\ it.entrada_id # Nulo => UsuarioDeFila(it.entrada_id) = it.usuario
                /\ it.salida_id # Nulo => UsuarioDeFila(it.salida_id) = it.usuario

\* a list with two entradas and then a salida of one user: the first entrada
\* was flushed as an orphan and the second paired
C27_Testigo ==
    /\ resultado # <<>>
    /\ Len(EventosDelCaso(1)) = 3
    /\ \E a, b \in Rango(IntervalosSinLimpiar(caso)) :
          /\ a.salida_id = Nulo /\ EsCompleto(b)
          /\ a.entrada_momento <= b.entrada_momento

\* a list with rows of both users in which a salida of user 2 lies between
\* the entrada and the salida of user 1
C27_TestigoUsuarios ==
    /\ resultado # <<>>
    /\ \E a, b \in Rango(IntervalosSinLimpiar(caso)) :
          /\ a.usuario = 1 /\ EsCompleto(a)
          /\ b.usuario = 2 /\ b.entrada_id = Nulo
          /\ a.entrada_id < b.salida_id /\ b.salida_id < a.salida_id

\* the timestamp an interval is anchored to, and its group of the dedup
AnclaDe(it) == IF it.entrada_momento # Nulo THEN it.entrada_momento ELSE it.salida_momento

MismoGrupo(a, b) == a.usuario = b.usuario /\ Fecha(AnclaDe(a)) = Fecha(AnclaDe(b))

\* the orphan repeats, on its own side, a timestamp of a complete interval of
\* its group
RepiteMismoLado(it, ints) ==
    /\ ~EsCompleto(it)
    /\ \E c \in Rango(ints) :
          /\ EsCompleto(c) /\ MismoGrupo(it, c)
          /\ \/ it.entrada_momento # Nulo /\ it.entrada_momento = c.entrada_momento
             \/ it.salida_momento # Nulo /\ it.salida_momento = c.salida_momento

\* the orphan repeats any timestamp used by a complete interval of its group
RepiteAlgunExtremo(it, ints) ==
    /\ ~EsCompleto(it)
    /\ \E c \in Rango(ints) :
          /\ EsCompleto(c) /\ MismoGrupo(it, c)
          /\ AnclaDe(it) \in {c.entrada_momento, c.salida_momento}

\* C28 as stated: the dedup discards exactly the orphans whose single
\* timestamp equals a timestamp (entrada or salida) used by a complete
\* interval of the same user and anchor date, so no orphan left in the list
\* repeats an endpoint of a complete interval of its group.
C28_DedupCualquierExtremo ==
    resultado # <<>> =>
       \E ints \in {IntervalosSinLimpiar(caso)} :
          /\ Rango(resultado[1]) = {it \in Rango(ints) : ~RepiteAlgunExtremo(it, ints)}
          /\ \A it \in Rango(resultado[1]) : ~RepiteAlgunExtremo(it, resultado[1])

\* C28: the dedup discards exactly the entrada-only orphans whose timestamp
\* equals the entrada timestamp, and the salida-only orphans whose timestamp
\* equals the salida timestamp, of a complete interval of the same user and
\* anchor date; every other interval is kept, once.
C28_DedupMismoLado ==
    resultado # <<>> =>
       \E ints \in {IntervalosSinLimpiar(caso)} :
          /\ Rango(resultado[1]) = {it \in Rango(ints) : ~RepiteMismoLado(it, ints)}
          /\ Len(resultado[1]) = Cardinality(Rango(resultado[1]))

\* two entradas at the same instant and a salida: the orphan of the first
\* entrada was discarded
C28_Testigo ==
    /\ resultado # <<>>
    /\ \E it \in Rango(IntervalosSinLimpiar(caso)) :
          /\ RepiteMismoLado(it, IntervalosSinLimpiar(caso))
          /\ it \notin Rango(resultado[1])

\* a salida-only orphan that repeats the salida of a session begun the day
\* before is anchored on another date and kept
C28_TestigoOtroDia ==
    /\ resultado # <<>>
    /\ \E it, c \in Rango(resultado[1]) :
          /\ EsCompleto(c) /\ it.entrada_momento = Nulo
          /\ it.usuario = c.usuario /\ it.salida_momento = c.salida_momento
          /\ ~MismoGrupo(it, c)

\* C29: the list returned by agrupar_registros_en_intervalos is in descending
\* order of the anchor timestamp (entrada if present, else salida), whatever
\* the users of its intervals.
C29_OrdenDescendente ==
    resultado # <<>> =>
       \A i, j \in 1..Len(resultado[1]) :
          i < j => AnclaDe(resultado[1][i]) >= AnclaDe(resultado[1][j])

\* a list of both users whose intervals the final sort had to reorder: an
\* interval of user 1 comes before an earlier one of user 2 and after a later
\* one of user 1
C29_Testigo ==
    /\ resultado # <<>>
    /\ Len(resultado[1]) = 3
    /\ resultado[1] # IntervalosLimpios(IntervalosSinLimpiar(caso))
    /\ resultado[1][1].usuario = 1 /\ resultado[1][2].usuario = 1
    /\ resultado[1][3].usuario = 2
    /\ AnclaDe(resultado[1][1]) > AnclaDe(resultado[1][2])
    /\ AnclaDe(resultado[1][2]) > AnclaDe(resultado[1][3])

----------------------------------------------------------------------------
(* The interval of a date that carries the figures of the day *)

\* the positions of the intervals of section s anchored on date f
DelDia(s, f) == {i \in 1..Len(s.intervalos) : Fecha(AnclaDe(s.intervalos[i])) = f}

C30_TestigoExtra ==
    /\ resultado # <<>>
    /\ \E s \in Rango(resultado[1]) : \E f \in DOMAIN s.dias :
          /\ Cardinality(DelDia(s, f)) = 2
          /\ s.dias[f].extra > 0

----------------------------------------------------------------------------
(* determinar_ubicacion_por_coordenadas as a function of its arguments *)

\* locations of a list handed to the resolver
MaxUbicaciones == 2

\* determinar_ubicacion_por_coordenadas whose loop has no radio_efectivo test
determinar_ubicacion_por_coordenadas_sin_filtro(lat, lon, ubicaciones, margen) ==
    IF lat = Nulo \/ lon = Nulo THEN <<>>
    ELSE LET Dentro(loc) ==
                 is_within_radius(lat, loc.pos,
                     (IF loc.radius_meters = Nulo THEN 0 ELSE loc.radius_meters) + margen)
             dentro == SelectSeq(ubicaciones, Dentro)
         IN IF dentro = <<>> THEN <<>> ELSE <<dentro[1]>>

\* logic.determinar_ubicacion_por_coordenadas: the Location returned, as a
\* sequence of length 0 (None) or 1; lat is the point of the line, lon is
\* Nulo when the row has no longitude
determinar_ubicacion_por_coordenadas(lat, lon, ubicaciones, margen) ==
    IF lat = Nulo \/ lon = Nulo THEN <<>>
    ELSE LET radio_efectivo(loc) ==
                 (IF loc.radius_meters = Nulo THEN 0 ELSE loc.radius_meters) + margen
             Dentro(loc) ==
                 /\ radio_efectivo(loc) > 0
                 /\ is_within_radius(lat, loc.pos, radio_efectivo(loc))
             dentro == SelectSeq(ubicaciones, Dentro)
         IN IF dentro = <<>> THEN <<>> ELSE <<dentro[1]>>

\* the locations of the cases: at 0 m or at 60 m, with no radius, radius 0,
\* a negative radius, 50 m or 100 m
UbicacionesCaso ==
    {Location("Sede", p, r) : p \in {0, 60}, r \in {Nulo, 0, 0 - 20, 50, 100}}

CasosUbicacion ==
    {[lat |-> lat, lon |-> lon, ubicaciones |-> us, margen |-> mg] :
        lat \in {Nulo, 0, 40, 65, 115, 200}, lon \in {Nulo, 0},
        us \in UNION {[1..n -> UbicacionesCaso] : n \in 0..MaxUbicaciones},
        mg \in {0, margen_extra_m}}

InitUbicacion ==
    /\ caso \in CasosUbicacion
    /\ resultado = <<>>
    /\ registros = <<>> /\ justificaciones = {} /\ ediciones = <<>> /\ reloj = 1
    /\ usuarios = [u \in Usuarios |-> PerfilLibre]
    /\ respuesta = SinRespuesta /\ peticiones = <<>>

\* a caller resolves the location of the coordinates of the case
Ubicar ==
    /\ resultado = <<>>
    /\ resultado' = <<determinar_ubicacion_por_coordenadas(
                          caso.lat, caso.lon, caso.ubicaciones, caso.margen)>>
    /\ UNCHANGED <<registros, justificaciones, ediciones, reloj, usuarios, respuesta, peticiones, caso>>

NextUbicacion == Ubicar

SpecUbicacion == InitUbicacion /\ [][NextUbicacion]_vars

\* the location at position i of the list of the case matches the coordinate
CoincideCaso(i) ==
    LET loc == caso.ubicaciones[i]
        radio == IF loc.radius_meters = Nulo THEN 0 ELSE loc.radius_meters
    IN /\ caso.lat # Nulo /\ caso.lon # Nulo
       /\ radio + caso.margen > 0
       /\ Distancia(caso.lat, loc.pos) <= radio + caso.margen

\* C31: the resolver returns the first location of the list, in list order,
\* whose distance from the coordinate is at most radius + tolerance and whose
\* radius + tolerance is positive, nearer later locations notwithstanding;
\* it returns none when no location matches or when latitude or longitude is
\* absent.
C31_PrimeraUbicacion ==
    resultado # <<>> =>
       IF \E i \in 1..Len(caso.ubicaciones) : CoincideCaso(i)
       THEN \E i \in 1..Len(caso.ubicaciones) :
               /\ CoincideCaso(i)
               /\ \A j \in 1..(i - 1) : ~CoincideCaso(j)
               /\ resultado[1] = <<caso.ubicaciones[i]>>
       ELSE resultado[1] = <<>>

\* the first location of the list was returned although the second one
\* matches too and is nearer
C31_Testigo ==
    /\ resultado # <<>> /\ Len(caso.ubicaciones) = 2
    /\ CoincideCaso(1) /\ CoincideCaso(2)
    /\ Distancia(caso.lat, caso.ubicaciones[2].pos)
         < Distancia(caso.lat, caso.ubicaciones[1].pos)
    /\ resultado[1] = <<caso.ubicaciones[1]>>

\* a location of radius 0 under tolerance 0 did not match the point it
\* stands on
C31_TestigoRadioCero ==
    /\ resultado # <<>> /\ resultado[1] = <<>>
    /\ caso.margen = 0 /\ caso.lat # Nulo /\ caso.lon # Nulo
    /\ \E i \in 1..Len(caso.ubicaciones) :
          /\ caso.ubicaciones[i].pos = caso.lat
          /\ caso.ubicaciones[i].radius_meters = 0

\* the positions of the returned intervals that have the row of that id as
\* an endpoint
ExtremoDe(id, ints) ==
    {i \in 1..Len(ints) : id \in {ints[i].entrada_id, ints[i].salida_id}}

\* C32: every entrada/salida row handed to the builder is an endpoint of at
\* most one returned interval; every complete interval of the pairing pass is
\* returned; a row that is an endpoint of no returned interval is the endpoint
\* of an orphan the dedup discarded for repeating a complete interval of its
\* group; and every returned complete interval has entrada <= salida with no
\* entrada/salida row of its user strictly between the two.
C32_Conservacion ==
    resultado # <<>> =>
       \E pre \in {IntervalosSinLimpiar(caso)} :
          /\ \A r \in Rango(caso) : Cardinality(ExtremoDe(r.id, resultado[1])) <= 1
          /\ \A it \in Rango(pre) : EsCompleto(it) => it \in Rango(resultado[1])
          /\ \A r \in Rango(caso) :
                ExtremoDe(r.id, resultado[1]) = {} =>
                   \E it \in Rango(pre) :
                      /\ r.id \in {it.entrada_id, it.salida_id}
                      /\ RepiteMismoLado(it, resultado[1])
          /\ \A it \in Rango(resultado[1]) :
                EsCompleto(it) =>
                   /\ it.entrada_momento <= it.salida_momento
                   /\ ~\E r \in Rango(caso) :
                         /\ r.usuario_id = it.usuario
                         /\ it.entrada_momento < r.momento
                         /\ r.momento < it.salida_momento

\* a list handed with the salida before its entrada, and a third row that is
\* in no returned interval
C32_Testigo ==
    /\ resultado # <<>> /\ Len(caso) = 3
    /\ \E it \in Rango(resultado[1]) :
          /\ EsCompleto(it) /\ it.salida_id < it.entrada_id
          /\ it.entrada_momento < it.salida_momento
    /\ \E r \in Rango(caso) : ExtremoDe(r.id, resultado[1]) = {}

----------------------------------------------------------------------------
(* The two break reconcilers over the histories the gate accepts *)

\* rows of the histories of one user
MaxHistoria == 6

\* the profiles of user 1 in the histories: no schedule, a fixed break every
\* day, a fixed break on Mondays, a fixed break that is optional
PerfilesHistoria ==
    {PerfilLibre, PerfilFijo,
     Perfil(<<Oficina>>, <<HorarioLunes>>, FALSE, FALSE, Nulo),
     Perfil(<<Oficina>>, <<HorarioFijoOpcional>>, FALSE, FALSE, Nulo)}

InitHistoria ==
    /\ InitComun
    /\ usuarios \in {[u \in Usuarios |-> IF u = 1 THEN p ELSE PerfilLibre] :
                        p \in PerfilesHistoria}

\* POST /fichar of user 1 from inside its location, a salida with a motive
FicharHistoria(accion) ==
    /\ reloj < Len(Instantes)
    /\ Len(registros) < MaxHistoria
    /\ \E ultimo \in UltimoLeido(registros, 1) :
         \E r \in {ResultadoFichar(registros, ultimo, registros, justificaciones,
                                   usuarios[1], 1, accion, "no", 40,
                                   IF accion = "salida" THEN "Otro" ELSE "",
                                   Instantes[reloj])} :
            /\ registros' = r.tabla
            /\ justificaciones' = r.justs
            /\ reloj' = IF r.msg = "" THEN reloj + 1 ELSE reloj
            /\ respuesta' = [usuario |-> 1, accion |-> accion,
                             ok |-> r.msg = "", msg |-> r.msg]
    /\ UNCHANGED <<ediciones, usuarios, peticiones, caso, resultado>>

NextHistoria == \E accion \in Acciones : FicharHistoria(accion)

SpecHistoria == InitHistoria /\ [][NextHistoria]_vars

\* the complete and the open intervals of the history
IntervalosConEntrada ==
    SelectSeq(agrupar_registros_en_intervalos(registros),
              LAMBDA it : it.entrada_momento # Nulo)

\* C33: for every complete or open interval of a history the gate accepted,
\* with the rows of the table as break events and the current instant as
\* "now", the in-memory reconciler and the query-based reconciler compute the
\* same break total and the same break-in-progress flag.
C33_ReconciliadoresDeAcuerdo ==
    \A it \in Rango(IntervalosConEntrada) :
       \E m \in {DescansoEnMemoria(it, registros, Instantes[reloj])} :
          \E q \in {calcular_descanso_intervalo_para_usuario(
                        registros, it.usuario, it.entrada_momento,
                        it.salida_momento, Instantes[reloj])} :
             /\ m.descanso_total = q.total
             /\ m.descanso_en_curso = q.en_curso

----------------------------------------------------------------------------
(* The justification of a salida beyond the expected time *)

\* the net work of user u on local date d in the table: the sessions whose
\* entrada falls on d in local time
TrabajadoEnFechaLocal(tabla, u, d, ahora) ==
    LET ints == agrupar_registros_en_intervalos(DeUsuario(tabla, u))
        Trabajo(it) ==
            IF it.entrada_momento # Nulo /\ Fecha(to_local(it.entrada_momento)) = d
            THEN calcular_extra_y_defecto_intervalo(
                     it, usuarios[u].schedules, tabla, ahora).trabajo_real
            ELSE 0
    IN SumSeq([i \in 1..Len(ints) |-> Trabajo(ints[i])])

\* the salida at position i of the table made the worked total of its local
\* day exceed the expected total of that day
SalidaExcede(i) ==
    TrabajadoEnFechaLocal(SubSeq(registros, 1, i), registros[i].usuario_id,
                          Fecha(to_local(registros[i].momento)), registros[i].momento)
        > EsperadoDe(usuarios[registros[i].usuario_id].schedules,
                     Fecha(to_local(registros[i].momento)))

\* C34: every stored salida that made the worked total of its local day
\* exceed the expected total of the day has a justification record with a
\* non-empty motive, and no other salida has a justification record.
C34_SalidaJustificada ==
    \A i \in 1..Len(registros) :
       registros[i].accion = "salida" =>
          (SalidaExcede(i) <=>
              \E j \in justificaciones :
                 j.registro_id = registros[i].id /\ j.motivo # "")

----------------------------------------------------------------------------
(* Manual breaks on a day with a fixed break *)

MsgDescansoFijo == "Tu horario tiene un descanso fijo configurado."

\* the first schedule of user u has, for the local date of the current
\* instant, a fixed break that is not optional
TieneDescansoFijoHoy(u) ==
    /\ usuarios[u].schedules # <<>>
    /\ \E s \in {usuarios[u].schedules[1]} :
          IF s.use_per_day
          THEN \E i \in 1..Len(s.days) :
                  /\ s.days[i].day_of_week = Fecha(Instantes[reloj] + TzOffset) % 7
                  /\ s.days[i].break_type = "fixed" /\ ~s.days[i].break_optional
          ELSE s.break_type = "fixed" /\ ~s.break_optional

\* C35: while the first schedule of the user has for today a fixed break that
\* is not optional, a descanso_inicio or descanso_fin request is answered
\* with the reason of the fixed break, whatever the state of the session, and
\* no step appends a break event.
C35_SinDescansoManual ==
    [][TieneDescansoFijoHoy(1) =>
          /\ ~Anade(1, "descanso_inicio") /\ ~Anade(1, "descanso_fin")
          /\ \A accion \in {"descanso_inicio", "descanso_fin"} :
                FicharHistoria(accion) =>
                   (/\ registros' = registros
                    /\ respuesta'.msg = MsgDescansoFijo /\ ~respuesta'.ok)]_vars

\* a descanso_inicio was refused for the fixed break of a Monday-only
\* schedule before any entrada, where the sequence check would refuse it too
C35_Testigo ==
    /\ usuarios[1].schedules = <<HorarioLunes>>
    /\ registros = <<>>
    /\ respuesta = [usuario |-> 1, accion |-> "descanso_inicio", ok |-> FALSE,
                    msg |-> MsgDescansoFijo]

\* with the same schedule a break was started on Tuesday
C35_TestigoMartes ==
    /\ usuarios[1].schedules = <<HorarioLunes>>
    /\ ~TieneDescansoFijoHoy(1)
    /\ registros # <<>> /\ registros[Len(registros)].accion = "descanso_inicio"

----------------------------------------------------------------------------
(* The pair returned by calcular_extra_y_defecto_intervalo *)

\* the cases: a session of user 1 and the schedules of the user: none, a
\* flexible break every day, a fixed break every day, Mondays only
CasosVarianza ==
    {[entrada |-> e, salida |-> IF d = Nulo THEN Nulo ELSE e + d, horarios |-> h] :
        e \in EntradasAncla, d \in DuracionesAncla,
        h \in {<<>>, <<HorarioFlex>>, <<HorarioFijo>>, <<HorarioLunes>>}}

\* the instant of the call, after every session of the cases
AhoraVarianza == Combine(3, 0)

InitVarianza ==
    /\ caso \in CasosVarianza
    /\ resultado = <<>>
    /\ registros = <<>> /\ justificaciones = {} /\ ediciones = <<>> /\ reloj = 1
    /\ usuarios = [u \in Usuarios |-> PerfilLibre]
    /\ respuesta = SinRespuesta /\ peticiones = <<>>

\* a caller runs calcular_extra_y_defecto_intervalo on the interval of the case
Variar ==
    /\ resultado = <<>>
    /\ resultado' = <<calcular_extra_y_defecto_intervalo(
                          agrupar_registros_en_intervalos(TablaAncla(caso))[1],
                          caso.horarios, TablaAncla(caso), AhoraVarianza)>>
    /\ UNCHANGED <<registros, justificaciones, ediciones, reloj, usuarios, respuesta, peticiones, caso>>

NextVarianza == Variar

SpecVarianza == InitVarianza /\ [][NextVarianza]_vars

\* C36: calcular_extra_y_defecto_intervalo returns (0, 0) as the overtime and
\* deficit of the interval, whatever the interval and the schedules of the
\* user, a user without schedule and a day without day entry included.
C36_SiempreCero ==
    resultado # <<>> => (resultado[1].extra = 0 /\ resultado[1].defecto = 0)

====
